---- MODULE Spec2Model ----
(***************************************************************************)
(* A model of the build-orchestration and caching subsystem of the terra   *)
(* CLI (fernkit/terra): the web library cache builder, its staleness       *)
(* check, the source locator and the platform build commands.              *)
(***************************************************************************)
EXTENDS Integers, Sequences, FiniteSets, TLC

(***************************************************************************)
(* Bounds of the model.                                                    *)
(***************************************************************************)
\* The last clock value at which a file may still be written.
MaxTime == 5

(***************************************************************************)
(* The framework source tree: files under <fern_source>/src.               *)
(* A file is its directory below src/, its stem and its extension.         *)
(***************************************************************************)
NoFile == [dir |-> <<>>, stem |-> "", ext |-> ""]
CoreCpp == [dir |-> <<"core">>, stem |-> "canvas", ext |-> "cpp"]
CoreHdr == [dir |-> <<"core">>, stem |-> "canvas", ext |-> "h"]
CoreDeepCpp == [dir |-> <<"core", "detail">>, stem |-> "impl", ext |-> "cpp"]
UiDeepCpp == [dir |-> <<"ui", "widgets">>, stem |-> "button", ext |-> "cpp"]
WebRendererCpp == [dir |-> <<"platform">>, stem |-> "web_renderer", ext |-> "cpp"]
PlatformFactoryCpp == [dir |-> <<"platform">>, stem |-> "platform_factory", ext |-> "cpp"]
FernCpp == [dir |-> <<>>, stem |-> "fern", ext |-> "cpp"]

\* The files the model lets exist, in directory-listing order.
FileOrder == <<CoreCpp, CoreHdr, CoreDeepCpp, UiDeepCpp, WebRendererCpp>>
Files == {FileOrder[k] : k \in 1..Len(FileOrder)}

\* Path.exists() of a file of a tree whose files carry the mtimes fs
\* (0: the file does not exist).
Exists(fs, f) == f \in DOMAIN fs /\ fs[f] > 0

\* src_file.name
Name(f) == <<f.stem, f.ext>>

\* patterns = ["core/*.cpp", "graphics/*.cpp", "text/*.cpp", "font/*.cpp", "ui/**/*.cpp"]
Patterns ==
    << [top |-> "core", deep |-> FALSE],
       [top |-> "graphics", deep |-> FALSE],
       [top |-> "text", deep |-> FALSE],
       [top |-> "font", deep |-> FALSE],
       [top |-> "ui", deep |-> TRUE] >>

\* platform_files
PlatformFiles == <<WebRendererCpp, PlatformFactoryCpp, FernCpp>>

\* Whether the path of f matches src/<top>/*.cpp, or src/<top>/**/*.cpp
\* when the pattern is recursive.
MutMatchesFlat(pat, f) ==
    /\ f.ext = "cpp"
    /\ Len(f.dir) = 1
    /\ f.dir[1] = pat.top

Matches(pat, f) ==
    /\ f.ext = "cpp"
    /\ Len(f.dir) >= 1
    /\ f.dir[1] = pat.top
    /\ (pat.deep \/ Len(f.dir) = 1)

\* fern_source.glob(f"src/{pattern}")
Glob(fs, pat) ==
    SelectSeq(FileOrder, LAMBDA f : Exists(fs, f) /\ Matches(pat, f))

(***************************************************************************)
(* The staleness check of _ensure_fern_web_library (fire.py and, line for  *)
(* line the same, prepare.py) and of web-cache's _is_cache_outdated.       *)
(***************************************************************************)
\* for src_file in ...glob(...): if src_file.stat().st_mtime > lib_mtime
RECURSIVE AnyNewer(_, _, _)
AnyNewer(files, fs, t) ==
    IF files = <<>> THEN FALSE
    ELSE IF fs[Head(files)] > t THEN TRUE
    ELSE AnyNewer(Tail(files), fs, t)

\* for pattern in patterns: ... break
RECURSIVE GlobNewer(_, _, _)
GlobNewer(pats, fs, t) ==
    IF pats = <<>> THEN FALSE
    ELSE IF AnyNewer(Glob(fs, Head(pats)), fs, t) THEN TRUE
    ELSE GlobNewer(Tail(pats), fs, t)

\* for platform_file in platform_files:
\*     if platform_file.exists() and platform_file.stat().st_mtime > lib_mtime
RECURSIVE PlatformNewer(_, _, _)
PlatformNewer(files, fs, t) ==
    IF files = <<>> THEN FALSE
    ELSE IF Exists(fs, Head(files)) /\ fs[Head(files)] > t THEN TRUE
    ELSE PlatformNewer(Tail(files), fs, t)

\* needs_rebuild of FireCommand._ensure_fern_web_library
MutNeedsRebuildAlways(l, fs) == TRUE

MutNeedsRebuildNoPlatform(l, fs) ==
    IF l.exists THEN GlobNewer(Patterns, fs, l.mtime) ELSE TRUE

NeedsRebuild(l, fs) ==
    IF l.exists
    THEN LET source_newer == GlobNewer(Patterns, fs, l.mtime)
         IN  source_newer \/ PlatformNewer(PlatformFiles, fs, l.mtime)
    ELSE TRUE

\* needs_rebuild of PrepareCommand._ensure_fern_web_library
PrepareNeedsRebuild(l, fs) ==
    IF l.exists
    THEN LET source_newer == GlobNewer(Patterns, fs, l.mtime)
         IN  source_newer \/ PlatformNewer(PlatformFiles, fs, l.mtime)
    ELSE TRUE

\* WebCacheCommand._is_cache_outdated(lib_file, fern_source); its caller has
\* checked that lib_file exists.
IsCacheOutdated(l, fs) ==
    IF GlobNewer(Patterns, fs, l.mtime) THEN TRUE
    ELSE PlatformNewer(PlatformFiles, fs, l.mtime)

\* source_files: every glob's files, then the platform files that exist.
RECURSIVE GlobAll(_, _)
GlobAll(pats, fs) ==
    IF pats = <<>> THEN <<>>
    ELSE Glob(fs, Head(pats)) \o GlobAll(Tail(pats), fs)

MutSourceFilesNoPlatform(fs) == GlobAll(Patterns, fs)

SourceFiles(fs) ==
    GlobAll(Patterns, fs) \o SelectSeq(PlatformFiles, LAMBDA f : Exists(fs, f))

(***************************************************************************)
(* State.                                                                  *)
(***************************************************************************)
VARIABLES
    mtime,       \* the located source tree: file -> st_mtime (0: no such file)
    clock,       \* the time the next file write is stamped with
    lib,         \* ~/.fern/cache/web/libfern_web.a
    objs,        \* ~/.fern/cache/web/obj_<i>.o, by index
    touchedSet,  \* history: files touched while no builder ran, since the last staleness check
    bld,         \* per invocation of _ensure_fern_web_library: its locals and position
    prev,        \* history: the last invocation that returned
    cand,        \* candidate source roots: directory -> what lies under its src/cpp
    env,         \* the process environment and the files the commands test for
    loc,         \* the last run of a source locator and what it printed
    cmd,         \* the running command: its locals and position
    last,        \* history: the last command that ended
    cfg,         \* a fern.yaml text and what parse_simple_yaml made of it
    walk,        \* a directory chain and what find_project_root made of it
    net,         \* the ports other processes are listening on
    pf,          \* a call of _find_available_port and its outcome
    srv          \* the preview server: both threads, the handle, the signals

cacheVars == <<mtime, clock, lib, objs, touchedSet, bld, prev>>
auxVars == <<cfg, walk, net, pf, srv>>
nonCacheVars == <<cand, env, loc, cmd, last, auxVars>>
vars == <<mtime, clock, lib, objs, touchedSet, bld, prev, cand, env, loc, cmd, last,
          cfg, walk, net, pf, srv>>

\* Invocations of the cache builder; SeqProcs run one after another.
Procs == {1, 2}
SeqProcs == {1}

\* Indices of the numbered object files.
Slots == 0..(Len(FileOrder) - 1)

NoObj == [src |-> NoFile, ver |-> 0]
NoLib == [exists |-> FALSE, mtime |-> 0, whole |-> FALSE,
          members |-> [k \in Slots |-> NoObj]]

NoName == <<"", "">>
Msg(kind, name, text) == [kind |-> kind, name |-> name, text |-> text]

\* One external process run: subprocess.run(cmd, capture_output=True, text=True)
Run(tool, src, out, ins, rc, stderr) ==
    [tool |-> tool, src |-> src, out |-> out, ins |-> ins, rc |-> rc, stderr |-> stderr]

IdleB ==
    [pc |-> "idle", needs_rebuild |-> FALSE, source_files |-> <<>>, i |-> 0,
     object_files |-> <<>>, result |-> "none", log |-> <<>>, msgs |-> <<>>,
     t0 |-> 0, state0 |-> "", afterTouch |-> {}]

NoPrev == [valid |-> FALSE, ok |-> FALSE, t0 |-> 0, state0 |-> "",
           log |-> <<>>, source_files |-> <<>>]

Range(s) == {s[k] : k \in 1..Len(s)}
AllIdle == \A p \in Procs : bld[p].pc = "idle"

\* The tracked source files as the documentation words them: core/*.cpp,
\* graphics/*.cpp, text/*.cpp, font/*.cpp, ui/**/*.cpp and the three
\* platform files.
TrackedDoc(f) ==
    \/ /\ f.ext = "cpp"
       /\ \/ Len(f.dir) = 1 /\ f.dir[1] \in {"core", "graphics", "text", "font"}
          \/ Len(f.dir) >= 1 /\ f.dir[1] = "ui"
    \/ f \in {WebRendererCpp, PlatformFactoryCpp, FernCpp}

TrackedFiles(fs) == {f \in Files : TrackedDoc(f) /\ fs[f] > 0}

\* Stale as the documentation words it.
StaleDoc(l, fs) ==
    \/ ~l.exists
    \/ \E f \in TrackedFiles(fs) : fs[f] > l.mtime

\* History: the cache state a staleness check meets.
CacheState(l, fs) ==
    IF ~l.exists THEN "absent"
    ELSE IF StaleDoc(l, fs) THEN "stale"
    ELSE "fresh"

(***************************************************************************)
(* FireCommand._ensure_fern_web_library(fern_source), one step per         *)
(* external process it runs.                                               *)
(***************************************************************************)
\* The call: cache_dir.mkdir(parents=True, exist_ok=True); lib_file = ...
BCall(p) ==
    /\ bld[p].pc = "idle"
    /\ cmd.pc = "idle"
    /\ bld' = [bld EXCEPT ![p] = [IdleB EXCEPT !.pc = "check", !.t0 = clock]]
    /\ UNCHANGED <<mtime, clock, lib, objs, touchedSet, prev, nonCacheVars>>

\* The staleness check and, on a miss, the collection of source_files.
BCheck(p) ==
    /\ bld[p].pc = "check"
    /\ LET needs_rebuild == NeedsRebuild(lib, mtime)
           b0 == [bld[p] EXCEPT !.needs_rebuild = needs_rebuild,
                                !.state0 = CacheState(lib, mtime),
                                !.afterTouch = touchedSet]
       IN  IF needs_rebuild
           THEN LET source_files == SourceFiles(mtime)
                IN  bld' = [bld EXCEPT ![p] =
                        [b0 EXCEPT !.source_files = source_files,
                                   !.i = 0,
                                   !.msgs = Append(@, Msg("building", NoName, "")),
                                   !.pc = IF source_files = <<>> THEN "archive" ELSE "compile"]]
           ELSE bld' = [bld EXCEPT ![p] =
                        [b0 EXCEPT !.msgs = Append(@, Msg("cached", NoName, "")),
                                   !.result = "lib",
                                   !.pc = "ret"]]
    /\ touchedSet' = {}
    /\ UNCHANGED <<mtime, clock, lib, objs, prev, nonCacheVars>>

\* One iteration of "for i, src_file in enumerate(source_files)": emcc -c.
\* What the loop does after a compile that exited rc.
MutAfterCompileContinue(b, src_file, rc, stderr) ==
    [b EXCEPT !.msgs = IF rc # 0
                       THEN Append(@, Msg("compile_failed", Name(src_file), stderr))
                       ELSE @,
              !.i = @ + 1,
              !.pc = IF b.i + 1 = Len(b.source_files) THEN "archive" ELSE "compile"]

AfterCompile(b, src_file, rc, stderr) ==
    IF rc # 0
    THEN [b EXCEPT !.msgs = Append(@, Msg("compile_failed", Name(src_file), stderr)),
                   !.result = "none",
                   !.pc = "ret"]
    ELSE [b EXCEPT !.i = @ + 1,
                   !.pc = IF b.i + 1 = Len(b.source_files) THEN "archive" ELSE "compile"]

BCompile(p) ==
    /\ bld[p].pc = "compile"
    /\ LET b == bld[p]
           src_file == b.source_files[b.i + 1]
           obj_file == b.i
       IN  \E rc \in {0, 1} :
             LET stderr == IF rc = 0 THEN "" ELSE "cc_diag"
                 b1 == [b EXCEPT !.object_files = Append(@, obj_file),
                                 !.log = Append(@, Run("emcc", src_file, obj_file, <<>>, rc, stderr))]
             IN  /\ (rc = 0) => Exists(mtime, src_file)
                 /\ objs' = IF rc = 0
                            THEN [objs EXCEPT ![obj_file] = [src |-> src_file, ver |-> mtime[src_file]]]
                            ELSE objs
                 /\ bld' = [bld EXCEPT ![p] = AfterCompile(b1, src_file, rc, stderr)]
    /\ UNCHANGED <<mtime, clock, lib, touchedSet, prev, nonCacheVars>>

\* The same compile as another invocation can observe it when the compiler
\* writes obj_<i>.o in place: first the file holds an incomplete object
\* (ver 0: not the object of the source as it is), then the compiler exits.
BCompileBegin(p) ==
    /\ bld[p].pc = "compile"
    /\ LET b == bld[p]
           src_file == b.source_files[b.i + 1]
       IN  /\ Exists(mtime, src_file)
           /\ objs' = [objs EXCEPT ![b.i] = [src |-> src_file, ver |-> 0]]
           /\ bld' = [bld EXCEPT ![p] = [b EXCEPT !.pc = "compiling"]]
    /\ UNCHANGED <<mtime, clock, lib, touchedSet, prev, nonCacheVars>>

BCompileEnd(p) ==
    /\ bld[p].pc = "compiling"
    /\ LET b == bld[p]
           src_file == b.source_files[b.i + 1]
           obj_file == b.i
           b1 == [b EXCEPT !.object_files = Append(@, obj_file),
                           !.log = Append(@, Run("emcc", src_file, obj_file, <<>>, 0, ""))]
       IN  /\ objs' = [objs EXCEPT ![obj_file] = [src |-> src_file, ver |-> mtime[src_file]]]
           /\ bld' = [bld EXCEPT ![p] = AfterCompile(b1, src_file, 0, "")]
    /\ UNCHANGED <<mtime, clock, lib, touchedSet, prev, nonCacheVars>>

\* emar rcs lib_file obj_0.o ...: members of the given names are replaced, the
\* archive's other members are kept.
Archived(old, os, object_files) ==
    [exists |-> TRUE, mtime |-> clock, whole |-> TRUE,
     members |-> [k \in Slots |->
                    IF k \in Range(object_files) THEN os[k]
                    ELSE IF old.exists /\ old.whole THEN old.members[k]
                    ELSE NoObj]]

\* An archive the archiver stopped writing part-way.
Partial(old) ==
    [exists |-> TRUE, mtime |-> clock, whole |-> FALSE,
     members |-> [k \in Slots |-> NoObj]]

\* What the builder does after the archiver exited rc.
MutAfterArchiveContinue(b, rc, stderr) ==
    [b EXCEPT !.msgs = IF rc # 0
                       THEN Append(@, Msg("archive_failed", NoName, stderr))
                       ELSE @,
              !.pc = "cleanup"]

AfterArchive(b, rc, stderr) ==
    IF rc # 0
    THEN [b EXCEPT !.msgs = Append(@, Msg("archive_failed", NoName, stderr)),
                   !.result = "none",
                   !.pc = "ret"]
    ELSE [b EXCEPT !.pc = "cleanup"]

BArchive(p) ==
    /\ bld[p].pc = "archive"
    /\ LET b == bld[p]
       IN  \E outcome \in {"ok", "fail_untouched", "fail_partial"} :
             LET rc == IF outcome = "ok" THEN 0 ELSE 1
                 stderr == IF rc = 0 THEN "" ELSE "ar_diag"
                 b1 == [b EXCEPT !.log = Append(@, Run("emar", NoFile, -1, b.object_files, rc, stderr))]
             IN  /\ (outcome = "ok") => \A k \in Range(b.object_files) : objs[k] # NoObj
                 /\ (outcome # "fail_untouched") => clock <= MaxTime
                 /\ lib' = CASE outcome = "ok" -> Archived(lib, objs, b.object_files)
                             [] outcome = "fail_partial" -> Partial(lib)
                             [] OTHER -> lib
                 /\ clock' = IF outcome = "fail_untouched" THEN clock ELSE clock + 1
                 /\ bld' = [bld EXCEPT ![p] = AfterArchive(b1, rc, stderr)]
    /\ UNCHANGED <<mtime, objs, touchedSet, prev, nonCacheVars>>

\* for obj_file in object_files: if obj_file.exists(): obj_file.unlink()
BCleanup(p) ==
    /\ bld[p].pc = "cleanup"
    /\ objs' = [k \in Slots |-> IF k \in Range(bld[p].object_files) THEN NoObj ELSE objs[k]]
    /\ bld' = [bld EXCEPT ![p] =
                [@ EXCEPT !.msgs = Append(@, Msg("built", NoName, "")),
                          !.result = "lib",
                          !.pc = "ret"]]
    /\ UNCHANGED <<mtime, clock, lib, touchedSet, prev, nonCacheVars>>

\* The builder has returned b.result to its caller.
BReturn(p) ==
    /\ bld[p].pc = "ret"
    /\ cmd.pc = "idle"
    /\ prev' = [valid |-> TRUE, ok |-> bld[p].result = "lib", t0 |-> bld[p].t0,
                state0 |-> bld[p].state0, log |-> bld[p].log,
                source_files |-> bld[p].source_files]
    /\ bld' = [bld EXCEPT ![p] = IdleB]
    /\ UNCHANGED <<mtime, clock, lib, objs, touchedSet, nonCacheVars>>

(***************************************************************************)
(* The environment: a source file's modification time is updated.          *)
(***************************************************************************)
Touch(f) ==
    /\ AllIdle
    /\ cmd.pc = "idle"
    /\ Exists(mtime, f)
    /\ clock <= MaxTime
    /\ mtime' = [mtime EXCEPT ![f] = clock]
    /\ clock' = clock + 1
    /\ touchedSet' = touchedSet \cup {f}
    /\ UNCHANGED <<lib, objs, bld, prev, nonCacheVars>>

\* A source file is deleted: no file's modification time changes.
Remove(f) ==
    /\ AllIdle
    /\ cmd.pc = "idle"
    /\ Exists(mtime, f)
    /\ mtime' = [mtime EXCEPT ![f] = 0]
    /\ UNCHANGED <<clock, lib, objs, touchedSet, bld, prev, nonCacheVars>>

\* A source file is added with the modification time t it had elsewhere
\* (moved in, unpacked from an archive, copied with its times kept), whether
\* or not a builder is running.
AddKept(f, t) ==
    /\ cmd.pc = "idle"
    /\ ~Exists(mtime, f)
    /\ t > 0 /\ t < clock
    /\ mtime' = [mtime EXCEPT ![f] = t]
    /\ UNCHANGED <<clock, lib, objs, touchedSet, bld, prev, nonCacheVars>>

(***************************************************************************)
(* The source locators: _find_fern_source of fire, prepare and web-cache.  *)
(***************************************************************************)
\* The directories a candidate root can be. "other" stands for every
\* directory that is no candidate and holds no src/cpp.
Dirs == {"home_fern", "cli_dir", "dev_path", "work", "work_parent",
         "usr_local_src", "home_fern_src", "other"}

\* What lies under <dir>/src/cpp: nothing ("none": no such directory), the
\* bare directory, or the directory with src, with include/fern, or both.
Shapes == {"none", "bare", "no_include", "no_src", "full"}

\* cpp_src.exists()
CppSrcExists(shape) == shape # "none"
\* (cpp_src / "include" / "fern").exists()
IncludeFernExists(shape) == shape \in {"no_src", "full"}
\* (cpp_src / "src").exists()
SrcExists(shape) == shape \in {"no_include", "full"}

\* Path(d).parent
Parent(d) == IF d = "work" THEN "work_parent" ELSE "other"

\* os.environ.get('ORIGINAL_CWD', os.getcwd())
OriginalCwd(e) == IF e.original_cwd = "" THEN e.cwd ELSE e.original_cwd

\* potential_sources of FireCommand._find_fern_source
FirePotentialSources(e) ==
    <<"home_fern", "cli_dir", "dev_path", e.cwd, Parent(OriginalCwd(e)),
      "usr_local_src", "home_fern_src">>

\* potential_sources of PrepareCommand._find_fern_source
PreparePotentialSources(e) ==
    <<"home_fern", "cli_dir", e.cwd, Parent(OriginalCwd(e)),
      "usr_local_src", "home_fern_src">>

\* potential_sources of WebCacheCommand._find_fern_source
WebCachePotentialSources(e) ==
    <<"home_fern", "cli_dir", "usr_local_src", "home_fern_src">>

\* The test each locator applies to a candidate.
LooksLikeFernSource(c, d) ==
    /\ CppSrcExists(c[d])
    /\ IncludeFernExists(c[d])
    /\ SrcExists(c[d])

\* for src_path in potential_sources: if <test>: return cpp_src
RECURSIVE FirstMatch(_, _)
FirstMatch(srcs, c) ==
    IF srcs = <<>> THEN "none"
    ELSE IF LooksLikeFernSource(c, Head(srcs)) THEN Head(srcs)
    ELSE FirstMatch(Tail(srcs), c)

\* One printed line "  <status> <cpp_src>" of the list of searched locations.
Listed(c, d) == [path |-> d, found |-> CppSrcExists(c[d])]

NoLoc == [who |-> "", result |-> "none", msgs |-> <<>>, listed |-> <<>>]

\* FireCommand._find_fern_source()
FireFind(c, e) ==
    LET srcs == FirePotentialSources(e)
        r == FirstMatch(srcs, c)
    IN  IF r # "none"
        THEN [who |-> "fire", result |-> r,
              msgs |-> <<Msg("found_source", NoName, r)>>, listed |-> <<>>]
        ELSE [who |-> "fire", result |-> "none",
              msgs |-> <<Msg("source_not_found", NoName, ""),
                         Msg("searched_locations", NoName, ""),
                         Msg("need_source", NoName, ""),
                         Msg("run_install", NoName, "")>>,
              listed |-> [k \in 1..Len(srcs) |-> Listed(c, srcs[k])]]

\* PrepareCommand._find_fern_source()
PrepareFind(c, e) ==
    LET srcs == PreparePotentialSources(e)
        r == FirstMatch(srcs, c)
    IN  IF r # "none"
        THEN [who |-> "prepare", result |-> r,
              msgs |-> <<Msg("found_source", NoName, r)>>, listed |-> <<>>]
        ELSE [who |-> "prepare", result |-> "none",
              msgs |-> <<Msg("source_not_found", NoName, ""),
                         Msg("need_source", NoName, ""),
                         Msg("run_install", NoName, "")>>,
              listed |-> <<>>]

\* WebCacheCommand._find_fern_source()
WebCacheFind(c, e) ==
    [who |-> "web_cache", result |-> FirstMatch(WebCachePotentialSources(e), c),
     msgs |-> <<>>, listed |-> <<>>]

\* A locator is run; it changes nothing but what it prints and returns.
FireFindFernSource ==
    /\ loc.who = ""
    /\ loc' = FireFind(cand, env)
    /\ UNCHANGED <<cacheVars, auxVars, cand, env, cmd, last>>

PrepareFindFernSource ==
    /\ loc.who = ""
    /\ loc' = PrepareFind(cand, env)
    /\ UNCHANGED <<cacheVars, auxVars, cand, env, cmd, last>>

WebCacheFindFernSource ==
    /\ loc.who = ""
    /\ loc' = WebCacheFind(cand, env)
    /\ UNCHANGED <<cacheVars, auxVars, cand, env, cmd, last>>

\* The caller has taken the locator's result.
LocatorDone ==
    /\ loc.who # ""
    /\ loc' = NoLoc
    /\ UNCHANGED <<cacheVars, auxVars, cand, env, cmd, last>>

(***************************************************************************)
(* The environment of a command.                                           *)
(***************************************************************************)
\* cwd: os.getcwd(); original_cwd: ORIGINAL_CWD ("": unset);
\* emcc: the Emscripten compiler ("ok", "broken": its --version exits
\* non-zero, "absent": no such executable); inc, liba: the installed
\* include/fern directory and lib/libfern.a; root: a project root is found
\* from cwd; main: <root>/lib/main.cpp exists; tpl_*: the template.html of the
\* project's web directory, of the original working directory, of the CLI.
DefaultEnv ==
    [cwd |-> "work", original_cwd |-> "", emcc |-> "ok", inc |-> TRUE,
     liba |-> TRUE, root |-> TRUE, main |-> TRUE, tpl_project |-> FALSE,
     tpl_local |-> FALSE, tpl_global |-> FALSE]

NoCand == [d \in Dirs |-> "none"]

(***************************************************************************)
(* The build commands: fire (project or single file) and prepare, for the  *)
(* linux and the web platform.                                             *)
(***************************************************************************)
\* The file argument of "fire <file>".
NoArg == [stem |-> "", suffix |-> "", exists |-> FALSE]
FileArgs ==
    { [stem |-> "demo", suffix |-> "cpp", exists |-> TRUE],
      [stem |-> "app", suffix |-> "cc", exists |-> TRUE],
      [stem |-> "notes", suffix |-> "txt", exists |-> TRUE],
      [stem |-> "gone", suffix |-> "cpp", exists |-> FALSE] }

\* structure['lib'] / 'main.cpp'
MainCpp == [stem |-> "main", suffix |-> "cpp", exists |-> TRUE]

NoPath == [base |-> "", dir |-> <<>>, stem |-> "", tail |-> "", ext |-> ""]
\* build_dir / "main.html", build_dir / "main"
FireProjectOut(platform) ==
    [base |-> "project_root", dir |-> <<"build">>, stem |-> "main", tail |-> "",
     ext |-> IF platform = "web" THEN "html" ELSE ""]
\* build_dir / (file_path.stem + "_temp.html"), build_dir / (file_path.stem + "_temp")
FireFileOut(platform, arg) ==
    [base |-> "original_cwd", dir |-> <<"build">>, stem |-> arg.stem, tail |-> "_temp",
     ext |-> IF platform = "web" THEN "html" ELSE ""]
\* web_build_dir / "index.html", linux_build_dir / build_system.project_root.name
PrepareOut(platform) ==
    IF platform = "web"
    THEN [base |-> "project_root", dir |-> <<"web", "build">>, stem |-> "index",
          tail |-> "", ext |-> "html"]
    ELSE [base |-> "project_root", dir |-> <<"linux", "build">>, stem |-> "project_name",
          tail |-> "", ext |-> ""]

\* The output path of a command's build.
OutputPath(who, platform, arg) ==
    CASE who = "fire_project" -> FireProjectOut(platform)
      [] who = "fire_file" -> FireFileOut(platform, arg)
      [] OTHER -> PrepareOut(platform)

\* The entry file a command builds.
EntryOf(who, arg) == IF who = "fire_file" THEN arg ELSE MainCpp

\* One external process of a command: the toolchain probe, the build of the
\* entry file, the run of the built executable.
Exec(tool, mode, src, libs, shell, out, rc, stderr) ==
    [tool |-> tool, mode |-> mode, src |-> src, libs |-> libs, shell |-> shell,
     out |-> out, rc |-> rc, stderr |-> stderr]

\* FernConfig.is_fern_installed()
MutIsFernInstalledEither(e) == e.inc \/ e.liba

IsFernInstalled(e) == e.inc /\ e.liba

\* The --shell-file of each web build ("": none is passed).
FireProjectShell(e) == IF e.tpl_project THEN "project_template" ELSE ""
FireFileShell(e) ==
    IF e.tpl_local THEN "local_template"
    ELSE IF e.tpl_global THEN "global_template"
    ELSE ""
PrepareShell(e) ==
    IF e.tpl_project THEN "project_template"
    ELSE IF e.tpl_global THEN "global_template"
    ELSE ""
ShellFile(who, e) ==
    CASE who = "fire_project" -> FireProjectShell(e)
      [] who = "fire_file" -> FireFileShell(e)
      [] OTHER -> PrepareShell(e)

\* The emcc command line of the final web build: the entry file and the
\* precompiled library.
MutWebBuildRunSources(who, arg, e, rc, stderr) ==
    Exec("emcc", "build", EntryOf(who, arg), {"framework_sources"}, ShellFile(who, e),
         OutputPath(who, "web", arg), rc, stderr)

WebBuildRun(who, arg, e, rc, stderr) ==
    Exec("emcc", "build", EntryOf(who, arg), {"libfern_web.a"}, ShellFile(who, e),
         OutputPath(who, "web", arg), rc, stderr)

\* The g++ command line of a native build: the entry file and the installed
\* libraries.
NativeBuildRun(who, arg, e, rc, stderr) ==
    Exec("g++", "build", EntryOf(who, arg), {"fern", "X11", "Xext", "fontconfig", "freetype"},
         "", OutputPath(who, "linux", arg), rc, stderr)

IdleCmd ==
    [who |-> "", platform |-> "", arg |-> NoArg, pc |-> "idle", entered |-> FALSE,
     fern_source |-> "none", log |-> <<>>, lib_log |-> <<>>, lib_msgs |-> <<>>,
     msgs |-> <<>>, listed |-> <<>>, built |-> FALSE, ran |-> FALSE,
     served |-> FALSE, t0 |-> 0, had_lib |-> FALSE]

NoLast ==
    [valid |-> FALSE, who |-> "", platform |-> "", arg |-> NoArg, built |-> FALSE,
     out |-> NoPath, t0 |-> 0]

M(kind) == Msg(kind, NoName, "")

\* The command stops: its messages so far, then ms.
Stop(c, ms) == [c EXCEPT !.msgs = @ \o ms, !.pc = "done"]

\* "Build failed" is printed by fire, whose build functions return False;
\* prepare's just return.
Failed(c, ms) ==
    Stop(c, ms \o (IF c.who = "prepare" THEN <<>> ELSE <<M("build_failed")>>))

\* The native build function up to its compiler run.
NativeBuildEntry(c, e) ==
    LET c1 == [c EXCEPT !.entered = TRUE]
    IN  IF ~IsFernInstalled(e)
        THEN Failed(c1, <<M("not_installed"), M("run_install_sh")>>)
        ELSE [c1 EXCEPT !.pc = "cc"]

\* The steps of a web build from the source locator to the call of the
\* cache builder; found is the locator's run.
WebLocate(c, found) ==
    IF found.result = "none"
    THEN Failed([c EXCEPT !.listed = found.listed], found.msgs)
    ELSE [c EXCEPT !.msgs = @ \o found.msgs,
                   !.fern_source = found.result,
                   !.pc = "ensure"]

\* FireCommand._run_project(platform) up to the first external process.
FireProjectStart(c, e) ==
    IF ~e.root THEN Stop(c, <<M("not_in_project"), M("run_sprout")>>)
    ELSE IF ~e.main THEN Stop(c, <<M("no_main_cpp"), M("create_main_cpp")>>)
    ELSE IF c.platform = "web" THEN [c EXCEPT !.entered = TRUE, !.pc = "probe"]
    ELSE NativeBuildEntry(c, e)

\* FireCommand._run_single_file(file_path, platform) up to the first external process.
MutFireFileStartAnySuffix(c, e) ==
    IF ~c.arg.exists THEN Stop(c, <<M("file_not_found")>>)
    ELSE IF c.platform = "web" THEN [c EXCEPT !.entered = TRUE, !.pc = "probe"]
    ELSE NativeBuildEntry(c, e)

FireFileStart(c, e) ==
    IF ~c.arg.exists THEN Stop(c, <<M("file_not_found")>>)
    ELSE IF c.arg.suffix \notin {"cpp", "cxx", "cc"}
    THEN Stop(c, <<M("unsupported_file_type"), M("supported_types")>>)
    ELSE IF c.platform = "web" THEN [c EXCEPT !.entered = TRUE, !.pc = "probe"]
    ELSE NativeBuildEntry(c, e)

\* PrepareCommand.execute([platform]) up to the first external process.
PrepareStart(c, e, cn) ==
    IF ~e.root THEN Stop(c, <<M("not_in_project"), M("run_sprout")>>)
    ELSE IF c.platform = "web"
    THEN LET c1 == [c EXCEPT !.entered = TRUE]
         IN  IF e.emcc = "absent"
             THEN Stop(c1, <<M("emscripten_not_found"), M("install_emscripten")>>)
             ELSE IF ~e.main THEN Stop(c1, <<M("no_main_cpp"), M("create_main_cpp")>>)
             ELSE WebLocate(c1, PrepareFind(cn, e))
    ELSE LET c1 == NativeBuildEntry(c, e)
         IN  IF c1.pc = "cc" /\ ~e.main
             THEN Stop(c1, <<M("no_main_cpp"), M("create_main_cpp")>>)
             ELSE c1

\* if platform not in ["linux", "web"]
SupportedPlatforms == {"linux", "web"}

\* A command is run: execute(args) validates the platform and dispatches.
CStart(who, platform, arg) ==
    /\ cmd.pc = "idle"
    /\ AllIdle
    /\ loc.who = ""
    /\ LET c == [IdleCmd EXCEPT !.who = who, !.platform = platform, !.arg = arg,
                                !.t0 = clock]
       IN  cmd' = CASE platform \notin SupportedPlatforms ->
                         Stop(c, <<M("unsupported_platform"), M("supported_platforms")>>)
                    [] who = "fire_project" -> FireProjectStart(c, env)
                    [] who = "fire_file" -> FireFileStart(c, env)
                    [] OTHER -> PrepareStart(c, env, cand)
    /\ UNCHANGED <<cacheVars, auxVars, cand, env, loc, last>>

\* fire's web builds: subprocess.run(["emcc", "--version"]) and the steps up
\* to the call of the cache builder.
CProbe ==
    /\ cmd.pc = "probe"
    /\ cmd' =
         IF env.emcc = "absent"
         THEN \* FileNotFoundError, caught by "except Exception"
              Failed(cmd, <<M("web_build_error")>>)
         ELSE LET rc == IF env.emcc = "ok" THEN 0 ELSE 1
                  c1 == [cmd EXCEPT !.log = Append(@,
                            Exec("emcc", "version", NoArg, {}, "", NoPath, rc, ""))]
              IN  IF rc # 0
                  THEN Failed(c1, <<M("emscripten_not_found"), M("see_bloom")>>)
                  ELSE IF c1.who = "fire_file" /\ ~IsFernInstalled(env)
                  THEN Failed(c1, <<M("not_installed"), M("run_install_sh")>>)
                  ELSE WebLocate(c1, FireFind(cand, env))
    /\ UNCHANGED <<cacheVars, auxVars, cand, env, loc, last>>

\* WebCacheCommand._rebuild_cache from "from fire import FireCommand" to the
\* call of the cache builder; found is the run of fire's locator.
RebuildLocate(c, found) ==
    IF found.result = "none"
    THEN Stop([c EXCEPT !.listed = found.listed],
              found.msgs \o <<M("cannot_rebuild_no_source")>>)
    ELSE [c EXCEPT !.msgs = @ \o found.msgs,
                   !.fern_source = found.result,
                   !.pc = "ensure"]

\* ... and after the cache builder has returned.
RebuildEnsured(c, result) ==
    IF result = "lib"
    THEN Stop(c, <<M("cache_rebuilt"), M("cache_location")>>)
    ELSE Stop(c, <<M("failed_to_rebuild")>>)

\* fern web-cache rebuild: shutil.rmtree(cache_dir) if the directory
\* exists (it does once the artifact or a builder's call has made it), then
\* the locator.
RebuildStart ==
    /\ cmd.pc = "idle"
    /\ AllIdle
    /\ loc.who = ""
    /\ lib' = NoLib
    /\ objs' = [k \in Slots |-> NoObj]
    /\ LET c == [IdleCmd EXCEPT !.who = "web_cache", !.platform = "web",
                                !.entered = TRUE, !.t0 = clock,
                                !.had_lib = lib.exists /\ lib.whole,
                                !.msgs = IF lib.exists \/ prev.valid
                                         THEN <<M("cleared_cache")>> ELSE <<>>]
       IN  cmd' = RebuildLocate(c, FireFind(cand, env))
    /\ UNCHANGED <<mtime, clock, touchedSet, bld, prev, cand, env, loc, last, auxVars>>

\* fern_web_lib = self._ensure_fern_web_library(fern_source): the call.
CEnsure ==
    /\ cmd.pc = "ensure"
    /\ bld[1].pc = "idle"
    /\ bld' = [bld EXCEPT ![1] = [IdleB EXCEPT !.pc = "check", !.t0 = clock]]
    /\ cmd' = [cmd EXCEPT !.pc = "ensuring"]
    /\ UNCHANGED <<mtime, clock, lib, objs, touchedSet, prev, cand, env, loc, last, auxVars>>

\* ... and its return: "if not fern_web_lib: return".
CEnsured ==
    /\ cmd.pc = "ensuring"
    /\ bld[1].pc = "ret"
    /\ prev' = [valid |-> TRUE, ok |-> bld[1].result = "lib", t0 |-> bld[1].t0,
                state0 |-> bld[1].state0, log |-> bld[1].log,
                source_files |-> bld[1].source_files]
    /\ bld' = [bld EXCEPT ![1] = IdleB]
    /\ LET c1 == [cmd EXCEPT !.lib_log = bld[1].log, !.lib_msgs = bld[1].msgs]
       IN  cmd' = IF c1.who = "web_cache" THEN RebuildEnsured(c1, bld[1].result)
                  ELSE IF bld[1].result = "none"
                  THEN Failed(c1, <<>>)
                  ELSE [c1 EXCEPT !.pc = "link"]
    /\ UNCHANGED <<mtime, clock, lib, objs, touchedSet, cand, env, loc, last, auxVars>>

\* The final emcc run of a web build.
CLink ==
    /\ cmd.pc = "link"
    /\ \E rc \in {0, 1} :
         LET stderr == IF rc = 0 THEN "" ELSE "link_diag"
             c1 == [cmd EXCEPT !.log = Append(@,
                       WebBuildRun(cmd.who, cmd.arg, env, rc, stderr))]
         IN  cmd' = IF rc # 0
                    THEN Failed(c1, <<Msg("web_compile_failed", NoName, stderr)>>)
                    ELSE IF c1.who = "prepare"
                    THEN Stop([c1 EXCEPT !.built = TRUE], <<M("web_build_ok")>>)
                    ELSE [c1 EXCEPT !.built = TRUE,
                                    !.msgs = Append(@, M("build_ok")),
                                    !.pc = "serve"]
    /\ UNCHANGED <<cacheVars, auxVars, cand, env, loc, last>>

\* fire's _run_web_project / _run_web_file: the preview server runs until it
\* is stopped.
CServe ==
    /\ cmd.pc = "serve"
    /\ cmd' = [cmd EXCEPT !.served = TRUE, !.pc = "done"]
    /\ UNCHANGED <<cacheVars, auxVars, cand, env, loc, last>>

\* The g++ run of a native build.
CCompileNative ==
    /\ cmd.pc = "cc"
    /\ \E rc \in {0, 1} :
         LET stderr == IF rc = 0 THEN "" ELSE "cc_diag"
             c1 == [cmd EXCEPT !.log = Append(@,
                       NativeBuildRun(cmd.who, cmd.arg, env, rc, stderr))]
         IN  cmd' = IF rc # 0
                    THEN Failed(c1, <<Msg("compile_failed", NoName, stderr)>>)
                    ELSE IF c1.who = "prepare"
                    THEN Stop([c1 EXCEPT !.built = TRUE], <<M("linux_build_ok")>>)
                    ELSE [c1 EXCEPT !.built = TRUE,
                                    !.msgs = Append(@, M("build_ok")),
                                    !.pc = "run"]
    /\ UNCHANGED <<cacheVars, auxVars, cand, env, loc, last>>

\* FireCommand._run_executable(executable_path)
CRunExecutable ==
    /\ cmd.pc = "run"
    /\ \E rc \in {0, 1} :
         cmd' = [cmd EXCEPT
                   !.log = Append(@, Exec("executable", "run", NoArg, {}, "",
                              OutputPath(cmd.who, "linux", cmd.arg), rc, "")),
                   !.msgs = @ \o (IF rc = 0 THEN <<M("started")>>
                                  ELSE <<M("started"), M("runtime_error")>>),
                   !.ran = TRUE,
                   !.pc = "done"]
    /\ UNCHANGED <<cacheVars, auxVars, cand, env, loc, last>>

\* The command has ended.
CEnd ==
    /\ cmd.pc = "done"
    /\ last' = [valid |-> TRUE, who |-> cmd.who, platform |-> cmd.platform,
                arg |-> cmd.arg, built |-> cmd.built,
                out |-> IF cmd.built THEN OutputPath(cmd.who, cmd.platform, cmd.arg)
                        ELSE NoPath,
                t0 |-> cmd.t0]
    /\ cmd' = IdleCmd
    /\ UNCHANGED <<cacheVars, auxVars, cand, env, loc>>

(***************************************************************************)
(* fern.yaml: parse_simple_yaml and load_project_config.                   *)
(***************************************************************************)
\* A text is a sequence of lines. A line is the number of its leading blanks
\* and what follows them: nothing ("blank"), a comment ("comment"), text with
\* no colon ("plain"), or a key, the first colon and a value ("pair"), key
\* and value as strip() leaves them. A value is a sequence of characters.
Line(kind, indent, key, value) ==
    [kind |-> kind, indent |-> indent, key |-> key, value |-> value]

DecimalDigits == {"0", "1", "2", "3", "4", "5", "6", "7", "8", "9"}

\* The characters str.isdigit() accepts: the decimal digits, and digits such
\* as the superscript two, which int() rejects.
IsDigitChar(c) == c \in DecimalDigits \/ c = "^2"

DigitValue(c) ==
    CASE c = "0" -> 0 [] c = "1" -> 1 [] c = "2" -> 2 [] c = "3" -> 3
      [] c = "4" -> 4 [] c = "5" -> 5 [] c = "6" -> 6 [] c = "7" -> 7
      [] c = "8" -> 8 [] OTHER -> 9

\* str.lower(), character by character
LowerChar(c) ==
    CASE c = "T" -> "t" [] c = "F" -> "f" [] c = "R" -> "r" [] c = "U" -> "u"
      [] c = "E" -> "e" [] c = "A" -> "a" [] c = "L" -> "l" [] c = "S" -> "s"
      [] OTHER -> c
Lower(v) == [k \in 1..Len(v) |-> LowerChar(v[k])]

\* value.isdigit()
IsDigit(v) == v # <<>> /\ \A k \in 1..Len(v) : IsDigitChar(v[k])

\* int(value) of a string of decimal digits
RECURSIVE IntOf(_)
IntOf(v) ==
    IF v = <<>> THEN 0
    ELSE IntOf(SubSeq(v, 1, Len(v) - 1)) * 10 + DigitValue(v[Len(v)])

\* The values of a mapping.
EmptyDict == <<>>
VBool(b) == [type |-> "bool", int |-> 0, bool |-> b, str |-> <<>>, dict |-> EmptyDict]
VInt(n) == [type |-> "int", int |-> n, bool |-> FALSE, str |-> <<>>, dict |-> EmptyDict]
VStr(v) == [type |-> "str", int |-> 0, bool |-> FALSE, str |-> v, dict |-> EmptyDict]
VDict(d) == [type |-> "dict", int |-> 0, bool |-> FALSE, str |-> <<>>, dict |-> d]
\* int() raised ValueError
VError == [type |-> "error", int |-> 0, bool |-> FALSE, str |-> <<>>, dict |-> EmptyDict]

\* "Simple value - convert type"
Convert(v) ==
    IF Lower(v) = <<"t", "r", "u", "e">> THEN VBool(TRUE)
    ELSE IF Lower(v) = <<"f", "a", "l", "s", "e">> THEN VBool(FALSE)
    ELSE IF IsDigit(v)
    THEN IF \A k \in 1..Len(v) : v[k] \in DecimalDigits THEN VInt(IntOf(v)) ELSE VError
    ELSE VStr(v)

\* The mapping found in d by following path.
RECURSIVE GetAt(_, _)
GetAt(d, path) ==
    IF path = <<>> THEN d ELSE GetAt(d[Head(path)].dict, Tail(path))

\* current_dict[key] = val, current_dict being the mapping at path in d.
RECURSIVE SetAt(_, _, _, _)
SetAt(d, path, key, val) ==
    IF path = <<>>
    THEN [k \in (DOMAIN d) \cup {key} |-> IF k = key THEN val ELSE d[k]]
    ELSE [k \in DOMAIN d |->
            IF k = Head(path)
            THEN VDict(SetAt(d[k].dict, Tail(path), key, val))
            ELSE d[k]]

\* content.strip().split('\n'): the blank lines before the first line and
\* after the last are gone, and so are the leading blanks of the first line.
RECURSIVE DropLeadingBlank(_)
DropLeadingBlank(text) ==
    IF text # <<>> /\ Head(text).kind = "blank" THEN DropLeadingBlank(Tail(text))
    ELSE text
RECURSIVE DropTrailingBlank(_)
DropTrailingBlank(text) ==
    IF text # <<>> /\ text[Len(text)].kind = "blank"
    THEN DropTrailingBlank(SubSeq(text, 1, Len(text) - 1))
    ELSE text
StripContent(text) ==
    LET t == DropTrailingBlank(DropLeadingBlank(text))
    IN  IF t = <<>> THEN <<Line("blank", 0, "", <<>>)>>
        ELSE <<[Head(t) EXCEPT !.indent = 0]>> \o Tail(t)

\* The locals of parse_simple_yaml. The stack holds, for each open mapping,
\* the path that leads to it from result.
ParseStart ==
    [result |-> EmptyDict, stack |-> << <<>> >>, indent_levels |-> <<0>>, raised |-> FALSE]

\* while len(indent_levels) > 1 and indent <= indent_levels[-1]: pop both
RECURSIVE PopTo(_, _)
PopTo(st, indent) ==
    IF Len(st.indent_levels) > 1 /\ indent <= st.indent_levels[Len(st.indent_levels)]
    THEN PopTo([st EXCEPT !.stack = SubSeq(@, 1, Len(@) - 1),
                          !.indent_levels = SubSeq(@, 1, Len(@) - 1)], indent)
    ELSE st

\* One turn of "for line in lines".
ParseLine(st, line) ==
    IF st.raised \/ line.kind \in {"blank", "comment"} THEN st
    ELSE LET p == PopTo(st, line.indent)
             path == p.stack[Len(p.stack)]
         IN  IF line.kind = "plain" THEN p
             ELSE IF line.value # <<>>
             THEN IF Convert(line.value) = VError
                  THEN [p EXCEPT !.raised = TRUE]
                  ELSE [p EXCEPT !.result = SetAt(@, path, line.key, Convert(line.value))]
             ELSE [p EXCEPT !.result = SetAt(@, path, line.key, VDict(EmptyDict)),
                            !.stack = Append(@, path \o <<line.key>>),
                            !.indent_levels = Append(@, line.indent)]

RECURSIVE ParseLines(_, _)
ParseLines(st, lines) ==
    IF lines = <<>> THEN st ELSE ParseLines(ParseLine(st, Head(lines)), Tail(lines))

\* parse_simple_yaml(content): its locals when it returns or raises.
ParseSimpleYaml(text) == ParseLines(ParseStart, StripContent(text))

\* fern.yaml as the commands find it: no such file, a file that cannot be
\* read as text, or a text.
NoCfg == [file |-> "absent", text |-> <<>>, done |-> FALSE, parse |-> ParseStart]

\* load_project_config(project_root): the config (none: None) and whether
\* the warning was printed.
LoadProjectConfig(c) ==
    IF c.file = "absent" THEN [none |-> TRUE, dict |-> EmptyDict, warned |-> FALSE]
    ELSE IF c.file = "unreadable" THEN [none |-> TRUE, dict |-> EmptyDict, warned |-> TRUE]
    ELSE LET st == ParseSimpleYaml(c.text)
         IN  IF st.raised THEN [none |-> TRUE, dict |-> EmptyDict, warned |-> TRUE]
             ELSE [none |-> FALSE, dict |-> st.result, warned |-> FALSE]

\* parse_simple_yaml is applied to a text.
ParseText ==
    /\ cfg.file = "text"
    /\ ~cfg.done
    /\ cfg' = [cfg EXCEPT !.done = TRUE, !.parse = ParseSimpleYaml(cfg.text)]
    /\ UNCHANGED <<cacheVars, cand, env, loc, cmd, last, walk, net, pf, srv>>

(***************************************************************************)
(* The project root: ProjectDetector.find_project_root and                 *)
(* InstallCommand._find_project_root.                                      *)
(***************************************************************************)
\* The directories from the filesystem root (level 0) down to the start
\* directory (level start); yaml and toml are the levels that hold a
\* fern.yaml and a fern.toml.
NoLevel == 0 - 1
\* name: the argument of sprout; entry: what <original cwd>/<name> is ("none",
\* "file", "dir", "dangling": a symbolic link to nothing); project: the level
\* of the directory sprout created; msgs: what sprout printed.
NoWalk == [start |-> 0, yaml |-> {}, toml |-> {}, who |-> "", result |-> NoLevel,
           name |-> <<>>, entry |-> "none", entry0 |-> "none", sprouted |-> FALSE,
           project |-> NoLevel, msgs |-> <<>>]

\* Path.parent: the filesystem root is its own parent.
ParentLevel(l) == IF l = 0 THEN 0 ELSE l - 1

\* ProjectDetector.is_fern_project(path)
MutIsFernProjectTomlOnly(l, w) == l \in w.toml

IsFernProject(l, w) == l \in w.yaml \/ l \in w.toml

\* while current != current.parent: ... current = current.parent; return None
RECURSIVE FindProjectRoot(_, _)
FindProjectRoot(current, w) ==
    IF current # ParentLevel(current)
    THEN IF IsFernProject(current, w) THEN current
         ELSE FindProjectRoot(ParentLevel(current), w)
    ELSE NoLevel

\* InstallCommand._find_project_root: the same walk, written out.
RECURSIVE InstallFindProjectRoot(_, _)
InstallFindProjectRoot(current, w) ==
    IF current # ParentLevel(current)
    THEN IF current \in w.yaml \/ current \in w.toml THEN current
         ELSE InstallFindProjectRoot(ParentLevel(current), w)
    ELSE NoLevel

DetectorFindProjectRoot ==
    /\ walk.who = ""
    /\ walk' = [walk EXCEPT !.who = "detector", !.result = FindProjectRoot(walk.start, walk)]
    /\ UNCHANGED <<cacheVars, cand, env, loc, cmd, last, cfg, net, pf, srv>>

InstallerFindProjectRoot ==
    /\ walk.who = ""
    /\ walk' = [walk EXCEPT !.who = "install",
                            !.result = InstallFindProjectRoot(walk.start, walk)]
    /\ UNCHANGED <<cacheVars, cand, env, loc, cmd, last, cfg, net, pf, srv>>

(***************************************************************************)
(* sprout: SproutCommand.execute.                                          *)
(***************************************************************************)
\* str.isalnum() of one character.
IsAlnumChar(c) == c \in {"a", "1"}

\* name.replace('_', '').replace('-', '').isalnum()
IsValidProjectName(name) ==
    LET stripped == SelectSeq(name, LAMBDA c : c \notin {"_", "-"})
    IN  /\ stripped # <<>>
        /\ \A k \in 1..Len(stripped) : IsAlnumChar(stripped[k])

\* Path.exists(): follows symbolic links.
PathExists(entry) == entry \in {"file", "dir"}

\* execute([project_name]) in the directory walk.start: the checks, then
\* _create_project_structure (mkdir(parents=True, exist_ok=True) of the
\* subdirectories) and _create_project_files (fern.yaml first).
SproutExecute(w) ==
    LET w1 == [w EXCEPT !.sprouted = TRUE, !.entry0 = w.entry]
    IN  IF ~IsValidProjectName(w.name)
        THEN [w1 EXCEPT !.msgs = <<"invalid_project_name", "name_rule">>]
        ELSE IF PathExists(w.entry)
        THEN [w1 EXCEPT !.msgs = <<"already_exists">>]
        ELSE IF w.entry = "dangling"
        THEN \* os.mkdir raises FileExistsError and the path is no directory
             [w1 EXCEPT !.msgs = <<"creating", "failed_to_create">>]
        ELSE [w1 EXCEPT !.entry = "dir",
                        !.project = w.start + 1,
                        !.yaml = @ \cup {w.start + 1},
                        !.msgs = <<"creating", "created", "next_steps">>]

Sprout ==
    /\ ~walk.sprouted
    /\ walk.who = ""
    /\ walk' = SproutExecute(walk)
    /\ UNCHANGED <<cacheVars, cand, env, loc, cmd, last, cfg, net, pf, srv>>

\* cd <name>, then cd lib, after sprout has created the project.
ChangeDir ==
    /\ walk.project # NoLevel
    /\ walk.who = ""
    /\ walk.start <= walk.project
    /\ walk' = [walk EXCEPT !.start = walk.start + 1]
    /\ UNCHANGED <<cacheVars, cand, env, loc, cmd, last, cfg, net, pf, srv>>

(***************************************************************************)
(* The port finder: FireCommand._find_available_port.                      *)
(***************************************************************************)
\* max_attempts=10
MaxAttempts == 10
\* port = 8000  # default port
DefaultPort == 8000
\* The largest port number bind() takes; a larger one raises OverflowError.
MaxPortNumber == 65535

NoPf == [start |-> 0, done |-> FALSE, port |-> 0, warned |-> FALSE, raised |-> ""]

\* s.bind(('', port)) in the probe: "ok", "OSError" (another process listens
\* on the port) or "OverflowError" (no such port number).
ProbeBind(port, listening) ==
    IF port > MaxPortNumber THEN "OverflowError"
    ELSE IF port \in listening THEN "OSError"
    ELSE "ok"

\* for i in range(max_attempts): ...; print_warning(...); return start_port
RECURSIVE ProbeFrom(_, _, _)
ProbeFrom(start_port, i, listening) ==
    IF i >= MaxAttempts
    THEN [port |-> start_port, warned |-> TRUE, raised |-> ""]
    ELSE LET r == ProbeBind(start_port + i, listening)
         IN  IF r = "ok" THEN [port |-> start_port + i, warned |-> FALSE, raised |-> ""]
             ELSE IF r = "OSError" THEN ProbeFrom(start_port, i + 1, listening)
             ELSE [port |-> 0, warned |-> FALSE, raised |-> r]

\* _find_available_port(start_port) with an integer start_port.
FindAvailablePort(start_port, listening) == ProbeFrom(start_port, 0, listening)

\* The port finder is called.
FindPort ==
    /\ ~pf.done
    /\ pf.start > 0
    /\ LET r == FindAvailablePort(pf.start, net)
       IN  pf' = [pf EXCEPT !.done = TRUE, !.port = r.port, !.warned = r.warned,
                            !.raised = r.raised]
    /\ UNCHANGED <<cacheVars, cand, env, loc, cmd, last, cfg, walk, net, srv>>

(***************************************************************************)
(* The preview server: FireCommand._run_web_project and _run_web_file.     *)
(***************************************************************************)
\* if e.errno == 98:  # Address already in use
EADDRINUSE == 98
\* How many signals are delivered during one run.
MaxSignals == 2

\* 'web' in <str>
ContainsWeb(v) ==
    \E k \in 1..Len(v) :
        k + 2 <= Len(v) /\ v[k] = "w" /\ v[k + 1] = "e" /\ v[k + 2] = "b"

\* if project_config and 'platforms' in project_config and 'web' in
\* project_config['platforms']: port = project_config['platforms']['web'].get('port', 8000)
\* conf is what load_project_config returned; the outcome is the value of
\* port, or the exception raised on the way.
ConfigPort(conf) ==
    LET default == [value |-> VInt(DefaultPort), raised |-> ""]
    IN  IF conf.none \/ DOMAIN conf.dict = {} THEN default
        ELSE IF "platforms" \notin DOMAIN conf.dict THEN default
        ELSE LET pl == conf.dict["platforms"]
             IN  CASE pl.type = "dict" ->
                        IF "web" \notin DOMAIN pl.dict THEN default
                        ELSE LET w == pl.dict["web"]
                             IN  IF w.type # "dict"
                                 THEN [value |-> VError, raised |-> "AttributeError"]
                                 ELSE IF "port" \in DOMAIN w.dict
                                 THEN [value |-> w.dict["port"], raised |-> ""]
                                 ELSE default
                   [] pl.type = "str" ->
                        IF ContainsWeb(pl.str)
                        THEN [value |-> VError, raised |-> "TypeError"]
                        ELSE default
                   [] OTHER -> [value |-> VError, raised |-> "TypeError"]

\* self._find_available_port(port) with whatever the config gave as port:
\* start_port + i raises TypeError unless start_port is a number.
FindAvailablePortOf(value, listening) ==
    CASE value.type = "int" -> FindAvailablePort(value.int, listening)
      [] value.type = "bool" ->
            FindAvailablePort(IF value.bool THEN 1 ELSE 0, listening)
      [] OTHER -> [port |-> 0, warned |-> FALSE, raised |-> "TypeError"]

\* The errno of the OSError the server's bind raises (0: none).
BindErrno(port, listening) == IF port \in listening THEN EADDRINUSE ELSE 0

\* if e.errno == 98
MutIsAddressInUseNever(errno) == FALSE

IsAddressInUse(errno) == errno = EADDRINUSE

\* main: the foreground thread ("idle", "start": the port is chosen, "sleep":
\* the handlers are installed and the worker is started, "poll", "returned");
\* handlers: the signal handlers running on the foreground thread, the
\* innermost last ("entry", "wait": inside httpd.shutdown()); worker: the
\* background thread ("none", "start", "bound": httpd is set, "loop": inside
\* serve_forever, "dead"); httpd: the server handle ("none", "open":
\* listening, "closed"); shutdown_request, is_shut_down: the flag and the
\* event of the server; browser: what webbrowser.open will do.
NoSrv ==
    [who |-> "", main |-> "idle", handlers |-> <<>>, installed |-> FALSE,
     worker |-> "none", httpd |-> "none", shutdown_request |-> FALSE,
     is_shut_down |-> FALSE, browser |-> "ok", html |-> TRUE,
     conf_port |-> VInt(0), port |-> 0, signals |-> 0, lost |-> 0, raced |-> FALSE,
     shutdown_calls |-> 0, close_calls |-> 0, bind_failed |-> FALSE,
     opened |-> FALSE, unhandled |-> FALSE, msgs |-> <<>>]

\* Is a project root found for the config? _run_web_project is given one;
\* _run_web_file looks for one.
ServeHasRoot(v, e) == v.who = "project" \/ e.root

\* The function up to "port = self._find_available_port(port)" and the
\* messages that follow it.
RunWebStart(v, c, e, listening) ==
    IF ~v.html
    THEN [v EXCEPT !.msgs = Append(@, "web_build_not_found"), !.main = "returned"]
    ELSE LET conf == IF ServeHasRoot(v, e) THEN LoadProjectConfig(c)
                     ELSE [none |-> TRUE, dict |-> EmptyDict, warned |-> FALSE]
             warn == IF conf.warned THEN <<"failed_to_load_fern_yaml">> ELSE <<>>
             cp == ConfigPort(conf)
             fp == FindAvailablePortOf(cp.value, listening)
         IN  IF cp.raised # "" \/ fp.raised # ""
             THEN \* except Exception as e: print_error("Error running web ...")
                  [v EXCEPT !.conf_port = cp.value,
                            !.msgs = @ \o warn \o <<"error_running_web">>,
                            !.main = "returned"]
             ELSE [v EXCEPT !.conf_port = cp.value,
                            !.port = fp.port,
                            !.msgs = @ \o warn
                                       \o (IF fp.warned THEN <<"no_available_port">> ELSE <<>>)
                                       \o <<"starting_server", "open_your_browser">>,
                            !.main = "start"]

\* _run_web_project(project_root) / _run_web_file(file_path) is called.
RunWeb(who) ==
    /\ srv.main = "idle"
    /\ srv.who = ""
    /\ srv' = RunWebStart([srv EXCEPT !.who = who], cfg, env, net)
    /\ UNCHANGED <<cacheVars, cand, env, loc, cmd, last, cfg, walk, net, pf>>

\* signal.signal(SIGINT, ...); signal.signal(SIGTERM, ...); server_thread.start()
StartServer ==
    /\ srv.main = "start"
    /\ srv.handlers = <<>>
    /\ srv' = [srv EXCEPT !.installed = TRUE, !.worker = "start", !.main = "sleep"]
    /\ UNCHANGED <<cacheVars, cand, env, loc, cmd, last, cfg, walk, net, pf>>

\* time.sleep(1); webbrowser.open(...): it opens the page, returns False,
\* or raises, and what it raises is caught by the function's "except Exception".
OpenBrowser ==
    /\ srv.main = "sleep"
    /\ srv.handlers = <<>>
    /\ srv' = IF srv.browser = "raise"
              THEN [srv EXCEPT !.opened = TRUE,
                               !.msgs = Append(@, "error_running_web"),
                               !.main = "returned"]
              ELSE [srv EXCEPT !.opened = TRUE, !.main = "poll"]
    /\ UNCHANGED <<cacheVars, cand, env, loc, cmd, last, cfg, walk, net, pf>>

\* while server_thread.is_alive(): time.sleep(0.1) -- the loop ends. (With
\* signal_handler installed for SIGINT no KeyboardInterrupt reaches it.)
PollEnds ==
    /\ srv.main = "poll"
    /\ srv.handlers = <<>>
    /\ srv.worker = "dead"
    /\ srv' = [srv EXCEPT !.main = "returned"]
    /\ UNCHANGED <<cacheVars, cand, env, loc, cmd, last, cfg, walk, net, pf>>

\* Another process starts to listen on the chosen port after the probe.
OtherProcessBinds ==
    /\ srv.main \in {"start", "sleep", "poll"}
    /\ srv.worker \in {"none", "start"}
    /\ srv.port \notin net
    /\ net' = net \cup {srv.port}
    /\ srv' = [srv EXCEPT !.raced = TRUE]
    /\ UNCHANGED <<cacheVars, cand, env, loc, cmd, last, cfg, walk, pf>>

\* start_server(): httpd = ReusableTCPServer(("", port), ...)
WorkerBind ==
    /\ srv.worker = "start"
    /\ LET errno == BindErrno(srv.port, net)
       IN  srv' = IF errno = 0
                  THEN [srv EXCEPT !.httpd = "open", !.worker = "bound"]
                  ELSE IF IsAddressInUse(errno)
                  THEN [srv EXCEPT !.bind_failed = TRUE,
                                   !.msgs = Append(@, "port_in_use"),
                                   !.worker = "dead"]
                  ELSE \* raise: the thread ends with the exception
                       [srv EXCEPT !.bind_failed = TRUE, !.unhandled = TRUE,
                                   !.worker = "dead"]
    /\ UNCHANGED <<cacheVars, cand, env, loc, cmd, last, cfg, walk, net, pf>>

\* httpd.serve_forever() begins: self.__is_shut_down.clear()
WorkerServe ==
    /\ srv.worker = "bound"
    /\ srv' = [srv EXCEPT !.is_shut_down = FALSE, !.worker = "loop"]
    /\ UNCHANGED <<cacheVars, cand, env, loc, cmd, last, cfg, walk, net, pf>>

\* serve_forever() sees the shutdown request: it leaves its loop, resets the
\* flag, sets the event and returns, and the thread ends.
WorkerUnwinds ==
    /\ srv.worker = "loop"
    /\ srv.shutdown_request
    /\ srv' = [srv EXCEPT !.shutdown_request = FALSE, !.is_shut_down = TRUE,
                          !.worker = "dead"]
    /\ UNCHANGED <<cacheVars, cand, env, loc, cmd, last, cfg, walk, net, pf>>

\* The process lives while its foreground runs or its worker (daemon=False) does.
ProcessAlive(v) == v.main # "returned" \/ v.worker \notin {"none", "dead"}

\* SIGINT or SIGTERM is delivered: signal_handler starts on the foreground
\* thread, on top of whatever runs there.
Signal ==
    /\ srv.installed
    /\ ProcessAlive(srv)
    /\ srv.signals < MaxSignals
    /\ srv' = [srv EXCEPT !.signals = @ + 1, !.handlers = Append(@, "entry")]
    /\ UNCHANGED <<cacheVars, cand, env, loc, cmd, last, cfg, walk, net, pf>>

\* signal_handler: "if httpd:" and, when it is set, httpd.shutdown() up to
\* its wait for the event.
HandlerEntry ==
    /\ srv.handlers # <<>>
    /\ srv.handlers[Len(srv.handlers)] = "entry"
    /\ srv' = IF srv.httpd = "none"
              THEN [srv EXCEPT !.handlers = SubSeq(@, 1, Len(@) - 1), !.lost = @ + 1]
              ELSE [srv EXCEPT !.msgs = Append(@, "shutting_down"),
                               !.shutdown_calls = @ + 1,
                               !.shutdown_request = TRUE,
                               !.handlers = [@ EXCEPT ![Len(@)] = "wait"]]
    /\ UNCHANGED <<cacheVars, cand, env, loc, cmd, last, cfg, walk, net, pf>>

\* httpd.shutdown() returns once the event is set; then httpd.server_close().
HandlerClose ==
    /\ srv.handlers # <<>>
    /\ srv.handlers[Len(srv.handlers)] = "wait"
    /\ srv.is_shut_down
    /\ srv' = [srv EXCEPT !.httpd = "closed",
                          !.close_calls = @ + 1,
                          !.handlers = SubSeq(@, 1, Len(@) - 1)]
    /\ UNCHANGED <<cacheVars, cand, env, loc, cmd, last, cfg, walk, net, pf>>

AuxIdle ==
    /\ cfg = NoCfg
    /\ walk = NoWalk
    /\ net = {}
    /\ pf = NoPf
    /\ srv = NoSrv

(***************************************************************************)
(* The cache builder called again and again on one source tree.            *)
(***************************************************************************)
\* A complete artifact written at time m from the tree's files as they were then.
InitLib(fs, m) ==
    [exists |-> TRUE, mtime |-> m, whole |-> TRUE,
     members |-> [k \in Slots |->
        IF k < Len(SourceFiles(fs))
        THEN LET f == SourceFiles(fs)[k + 1]
             IN  [src |-> f, ver |-> IF fs[f] <= m THEN fs[f] ELSE 0]
        ELSE NoObj]]

InitTrees ==
    {fs \in [Files -> {0, 1, 3}] :
        /\ fs[CoreCpp] # 0
        /\ fs[CoreHdr] = 1
        /\ fs[CoreDeepCpp] = 1}

Init ==
    /\ mtime \in InitTrees
    /\ clock = 4
    /\ lib \in {NoLib, InitLib(mtime, 2)}
    /\ objs = [k \in Slots |-> NoObj]
    /\ touchedSet = {}
    /\ bld = [p \in Procs |-> IdleB]
    /\ prev = NoPrev
    /\ cand = NoCand
    /\ env = DefaultEnv
    /\ loc = NoLoc
    /\ cmd = IdleCmd
    /\ last = NoLast
    /\ AuxIdle

Next ==
    \/ \E p \in SeqProcs : BCall(p)
    \/ \E p \in SeqProcs : BCheck(p)
    \/ \E p \in SeqProcs : BCompile(p)
    \/ \E p \in SeqProcs : BArchive(p)
    \/ \E p \in SeqProcs : BCleanup(p)
    \/ \E p \in SeqProcs : BReturn(p)
    \/ \E f \in Files : Touch(f)

Spec == Init /\ [][Next]_vars

(***************************************************************************)
(* The cache builder on a source tree whose files come and go.             *)
(***************************************************************************)
\* The files that come and go.
EditedFiles == {CoreCpp, UiDeepCpp}

EditTree ==
    [f \in Files |-> IF f \in {CoreCpp, CoreHdr, UiDeepCpp} THEN 1 ELSE 0]

InitEdit ==
    /\ mtime = EditTree
    /\ clock = 4
    /\ lib \in {NoLib, InitLib(mtime, 2)}
    /\ objs = [k \in Slots |-> NoObj]
    /\ touchedSet = {}
    /\ bld = [p \in Procs |-> IdleB]
    /\ prev = NoPrev
    /\ cand = NoCand
    /\ env = DefaultEnv
    /\ loc = NoLoc
    /\ cmd = IdleCmd
    /\ last = NoLast
    /\ AuxIdle

NextEdit ==
    \/ Next
    \/ \E f \in EditedFiles : Remove(f)
    \/ \E f \in EditedFiles : AddKept(f, 1)

SpecEdit == InitEdit /\ [][NextEdit]_vars

(***************************************************************************)
(* Two invocations of the cache builder at once, on one cache directory.   *)
(***************************************************************************)
RaceTree ==
    [f \in Files |-> IF f \in {CoreHdr, UiDeepCpp} THEN 1 ELSE 0]

InitRace ==
    /\ mtime = RaceTree
    /\ clock = 4
    /\ lib = NoLib
    /\ objs = [k \in Slots |-> NoObj]
    /\ touchedSet = {}
    /\ bld = [p \in Procs |-> IdleB]
    /\ prev = NoPrev
    /\ cand = NoCand
    /\ env = DefaultEnv
    /\ loc = NoLoc
    /\ cmd = IdleCmd
    /\ last = NoLast
    /\ AuxIdle

NextRace ==
    \/ \E p \in Procs : BCall(p)
    \/ \E p \in Procs : BCheck(p)
    \/ \E p \in Procs : BCompile(p)
    \/ \E p \in Procs : BCompileBegin(p)
    \/ \E p \in Procs : BCompileEnd(p)
    \/ \E p \in Procs : BArchive(p)
    \/ \E p \in Procs : BCleanup(p)
    \/ \E p \in Procs : BReturn(p)
    \/ AddKept(CoreCpp, 1)

SpecRace == InitRace /\ [][NextRace]_vars

(***************************************************************************)
(* The source locators over every layout of the candidate roots.           *)
(***************************************************************************)
\* How many candidate roots hold a src/cpp directory.
MaxPresent == 3

LocateEnvs ==
    { DefaultEnv,
      [DefaultEnv EXCEPT !.cwd = "cli_dir", !.original_cwd = "work"] }

InitLocate ==
    /\ mtime = [f \in Files |-> 0]
    /\ clock = 4
    /\ lib = NoLib
    /\ objs = [k \in Slots |-> NoObj]
    /\ touchedSet = {}
    /\ bld = [p \in Procs |-> IdleB]
    /\ prev = NoPrev
    /\ cand \in {c \in [Dirs -> Shapes] :
                    /\ c["other"] = "none"
                    /\ Cardinality({d \in Dirs : c[d] # "none"}) <= MaxPresent}
    /\ env \in LocateEnvs
    /\ loc = NoLoc
    /\ cmd = IdleCmd
    /\ last = NoLast
    /\ AuxIdle

NextLocate ==
    \/ FireFindFernSource
    \/ PrepareFindFernSource
    \/ WebCacheFindFernSource
    \/ LocatorDone

SpecLocate == InitLocate /\ [][NextLocate]_vars

(***************************************************************************)
(* The build commands run one after another.                               *)
(***************************************************************************)
\* How many of a command's preconditions (the toolchain, the project root,
\* lib/main.cpp, a valid source tree) fail at once.
MaxFaults == 1

Faults(e, c) ==
    (IF e.emcc # "ok" THEN 1 ELSE 0) + (IF e.root THEN 0 ELSE 1)
    + (IF e.main THEN 0 ELSE 1) + (IF c = NoCand THEN 1 ELSE 0)

BuildEnvs ==
    { [DefaultEnv EXCEPT !.emcc = em, !.inc = i, !.liba = l, !.root = r, !.main = m] :
        em \in {"ok", "broken", "absent"}, i \in BOOLEAN, l \in BOOLEAN,
        r \in BOOLEAN, m \in BOOLEAN }

BuildTree ==
    [f \in Files |-> IF f \in {CoreCpp, CoreHdr, FernCpp} THEN 1 ELSE 0]

InitBuild ==
    /\ mtime = BuildTree
    /\ clock = 4
    /\ lib \in {NoLib, InitLib(mtime, 2)}
    /\ objs = [k \in Slots |-> NoObj]
    /\ touchedSet = {}
    /\ bld = [p \in Procs |-> IdleB]
    /\ prev = NoPrev
    /\ cand \in {NoCand, [NoCand EXCEPT !["home_fern"] = "full"]}
    /\ env \in BuildEnvs
    /\ Faults(env, cand) <= MaxFaults
    /\ loc = NoLoc
    /\ cmd = IdleCmd
    /\ last = NoLast
    /\ AuxIdle

NextBuild ==
    \/ \E platform \in {"linux", "web"} :
          \/ CStart("fire_project", platform, NoArg)
          \/ \E arg \in FileArgs : CStart("fire_file", platform, arg)
          \/ CStart("prepare", platform, NoArg)
    \/ CStart("fire_project", "macos", NoArg)
    \/ CStart("fire_file", "macos", [stem |-> "gone", suffix |-> "cpp", exists |-> FALSE])
    \/ CStart("prepare", "macos", NoArg)
    \/ CProbe
    \/ CEnsure
    \/ BCheck(1)
    \/ BCompile(1)
    \/ BArchive(1)
    \/ BCleanup(1)
    \/ CEnsured
    \/ CLink
    \/ CServe
    \/ CCompileNative
    \/ CRunExecutable
    \/ CEnd
    \/ \E f \in Files : Touch(f)

SpecBuild == InitBuild /\ [][NextBuild]_vars

(***************************************************************************)
(* fern web-cache rebuild, again and again.                                *)
(***************************************************************************)
InitRebuild ==
    /\ mtime = BuildTree
    /\ clock = 4
    /\ lib \in {NoLib, InitLib(mtime, 2)}
    /\ objs = [k \in Slots |-> NoObj]
    /\ touchedSet = {}
    /\ bld = [p \in Procs |-> IdleB]
    /\ prev = NoPrev
    /\ cand \in {NoCand, [NoCand EXCEPT !["home_fern"] = "full"],
                 [NoCand EXCEPT !["work_parent"] = "full"]}
    /\ env = DefaultEnv
    /\ loc = NoLoc
    /\ cmd = IdleCmd
    /\ last = NoLast
    /\ AuxIdle

NextRebuild ==
    \/ RebuildStart
    \/ CEnsure
    \/ BCheck(1)
    \/ BCompile(1)
    \/ BArchive(1)
    \/ BCleanup(1)
    \/ CEnsured
    \/ CEnd
    \/ \E f \in Files : Touch(f)

SpecRebuild == InitRebuild /\ [][NextRebuild]_vars

(***************************************************************************)
(* parse_simple_yaml over every short text.                                *)
(***************************************************************************)
\* How many lines a text has.
MaxLines == 3

YamlValues ==
    { <<>>, <<"4", "0", "0", "0">>, <<"t", "r", "u", "e">>, <<"F", "a", "l", "s", "e">>,
      <<"-", "5">>, <<"^2">> }

YamlLines ==
    { Line("pair", i, k, v) : i \in {0, 2, 4}, k \in {"platforms", "web", "port"},
                              v \in YamlValues }
    \cup { Line("blank", 2, "", <<>>), Line("comment", 0, "", <<>>),
           Line("plain", 0, "", <<>>) }

YamlTexts == UNION { [1..n -> YamlLines] : n \in 0..MaxLines }

\* Everything but cfg, walk, net, pf and srv at rest.
RestIdle ==
    /\ mtime = [f \in Files |-> 0]
    /\ clock = 4
    /\ lib = NoLib
    /\ objs = [k \in Slots |-> NoObj]
    /\ touchedSet = {}
    /\ bld = [p \in Procs |-> IdleB]
    /\ prev = NoPrev
    /\ cand = NoCand
    /\ env = DefaultEnv
    /\ loc = NoLoc
    /\ cmd = IdleCmd
    /\ last = NoLast

InitYaml ==
    /\ RestIdle
    /\ cfg \in { [NoCfg EXCEPT !.file = "text", !.text = t] : t \in YamlTexts }
    /\ walk = NoWalk
    /\ net = {}
    /\ pf = NoPf
    /\ srv = NoSrv

NextYaml == ParseText

SpecYaml == InitYaml /\ [][NextYaml]_vars

(***************************************************************************)
(* The project-root walk over every chain of directories.                  *)
(***************************************************************************)
\* How many levels below the filesystem root the walk starts.
MaxDepth == 4

InitWalk ==
    /\ RestIdle
    /\ cfg = NoCfg
    /\ walk \in { [NoWalk EXCEPT !.start = n, !.yaml = y, !.toml = t] :
                    n \in 0..MaxDepth, y \in SUBSET (0..MaxDepth), t \in SUBSET (0..MaxDepth) }
    /\ net = {}
    /\ pf = NoPf
    /\ srv = NoSrv

NextWalk ==
    \/ DetectorFindProjectRoot
    \/ InstallerFindProjectRoot

SpecWalk == InitWalk /\ [][NextWalk]_vars

(***************************************************************************)
(* sprout in every short directory chain, then the walk from inside.       *)
(***************************************************************************)
\* How deep the original working directory lies, and how long a name is.
MaxCwdDepth == 2
MaxNameLen == 2

NameChars == {"a", "1", "_", "-", "/", "."}
Names == UNION { [1..n -> NameChars] : n \in 0..MaxNameLen }

InitSprout ==
    /\ RestIdle
    /\ cfg = NoCfg
    /\ walk \in { [NoWalk EXCEPT !.start = n, !.yaml = y, !.toml = t, !.name = nm,
                                 !.entry = e, !.entry0 = e] :
                    n \in 0..MaxCwdDepth, y \in SUBSET (0..MaxCwdDepth),
                    t \in SUBSET (0..MaxCwdDepth), nm \in Names,
                    e \in {"none", "file", "dir", "dangling"} }
    /\ walk.yaml \cup walk.toml \subseteq 0..walk.start
    /\ net = {}
    /\ pf = NoPf
    /\ srv = NoSrv

NextSprout ==
    \/ Sprout
    \/ ChangeDir
    \/ DetectorFindProjectRoot
    \/ InstallerFindProjectRoot

SpecSprout == InitSprout /\ [][NextSprout]_vars

(***************************************************************************)
(* The port finder over every set of listening ports near the start port.  *)
(***************************************************************************)
\* A start port whose window reaches past the last port number.
HighPort == 65530

\* The ports from the start port to one past its window.
NearPorts(start_port) ==
    {q \in start_port..(start_port + MaxAttempts) : q <= MaxPortNumber}

InitPort ==
    /\ RestIdle
    /\ cfg = NoCfg
    /\ walk = NoWalk
    /\ pf \in { [NoPf EXCEPT !.start = q] : q \in {DefaultPort, HighPort} }
    /\ net \in SUBSET NearPorts(pf.start)
    /\ srv = NoSrv

NextPort == FindPort

SpecPort == InitPort /\ [][NextPort]_vars

(***************************************************************************)
(* One run of the preview server, with signals and another process         *)
(* binding ports.                                                          *)
(***************************************************************************)
\* A port a fern.yaml asks for.
ConfiguredPort == 4000

Text1(k, v) == << Line("pair", 0, k, v) >>
Text3(v2, v3) ==
    << Line("pair", 0, "platforms", <<>>), Line("pair", 2, "web", v2),
       Line("pair", 4, "port", v3) >>

\* fern.yaml as a run finds it.
ServeCfgs ==
    { NoCfg, [NoCfg EXCEPT !.file = "unreadable"] }
    \cup { [NoCfg EXCEPT !.file = "text", !.text = t] :
             t \in { Text3(<<>>, <<"4", "0", "0", "0">>),
                     Text3(<<>>, <<"a", "b", "c">>),
                     Text3(<<>>, <<"-", "5">>),
                     Text3(<<>>, <<"^2">>),
                     Text3(<<"5">>, <<"4", "0", "0", "0">>),
                     Text1("platforms", <<"t", "r", "u", "e">>),
                     Text1("platforms", <<"w", "e", "b">>),
                     Text1("platforms", <<"a", "l", "l">>),
                     Text1("name", <<"a", "b", "c">>),
                     << Line("pair", 0, "platforms", <<>>),
                        Line("pair", 2, "web", <<>>) >> } }

\* The ports other processes listen on when the run begins.
ServeNets ==
    { {}, {DefaultPort}, {DefaultPort, DefaultPort + 1}, {ConfiguredPort},
      DefaultPort..(DefaultPort + MaxAttempts - 1) }

InitServe ==
    /\ RestIdle
    /\ cfg \in ServeCfgs
    /\ walk = NoWalk
    /\ net \in ServeNets
    /\ pf = NoPf
    /\ srv \in { [NoSrv EXCEPT !.browser = b, !.html = h] :
                   b \in {"ok", "false", "raise"}, h \in BOOLEAN }

NextServe ==
    \/ \E who \in {"project", "file"} : RunWeb(who)
    \/ StartServer
    \/ OpenBrowser
    \/ PollEnds
    \/ OtherProcessBinds
    \/ WorkerBind
    \/ WorkerServe
    \/ WorkerUnwinds
    \/ Signal
    \/ HandlerEntry
    \/ HandlerClose

\* Both threads keep running; signals and other processes come as they will.
ServeFairness ==
    /\ WF_vars(StartServer)
    /\ WF_vars(OpenBrowser)
    /\ WF_vars(PollEnds)
    /\ WF_vars(WorkerBind)
    /\ WF_vars(WorkerServe)
    /\ WF_vars(WorkerUnwinds)
    /\ WF_vars(HandlerEntry)
    /\ WF_vars(HandlerClose)

SpecServe == InitServe /\ [][NextServe]_vars /\ ServeFairness

(***************************************************************************)
(* The web builds under every combination of template files.               *)
(***************************************************************************)
ShellEnvs ==
    { [DefaultEnv EXCEPT !.tpl_project = p, !.tpl_local = l, !.tpl_global = g] :
        p \in BOOLEAN, l \in BOOLEAN, g \in BOOLEAN }

InitShell ==
    /\ mtime = BuildTree
    /\ clock = 4
    /\ lib \in {NoLib, InitLib(mtime, 2)}
    /\ objs = [k \in Slots |-> NoObj]
    /\ touchedSet = {}
    /\ bld = [p \in Procs |-> IdleB]
    /\ prev = NoPrev
    /\ cand = [NoCand EXCEPT !["home_fern"] = "full"]
    /\ env \in ShellEnvs
    /\ loc = NoLoc
    /\ cmd = IdleCmd
    /\ last = NoLast
    /\ AuxIdle

NextShell ==
    \/ CStart("fire_project", "web", NoArg)
    \/ \E arg \in FileArgs : CStart("fire_file", "web", arg)
    \/ CStart("prepare", "web", NoArg)
    \/ CProbe
    \/ CEnsure
    \/ BCheck(1)
    \/ BCompile(1)
    \/ BArchive(1)
    \/ BCleanup(1)
    \/ CEnsured
    \/ CLink
    \/ CServe
    \/ CEnd

SpecShell == InitShell /\ [][NextShell]_vars

(***************************************************************************)
(* Properties of the cache builder (specification Spec).                   *)
(***************************************************************************)
Decided(b) == b.pc \in {"compile", "archive", "cleanup", "ret"}
Cached(b) == Msg("cached", NoName, "") \in Range(b.msgs)

\* One compilation pass over the source files sfs: each compiled once, in
\* order, into its own object file, then one archiver run over them.
OnePass(log, sfs) ==
    /\ Len(log) = Len(sfs) + 1
    /\ \A k \in 1..Len(sfs) :
          log[k].tool = "emcc" /\ log[k].src = sfs[k] /\ log[k].out = k - 1
    /\ log[Len(log)].tool = "emar"
    /\ log[Len(log)].ins = [k \in 1..Len(sfs) |-> k - 1]

\* The invocation p has returned, it follows an invocation that returned the
\* artifact, and no source file was touched since that one was called.
SecondCall(p) ==
    /\ bld[p].pc = "ret"
    /\ prev.valid /\ prev.ok
    /\ \A f \in Files : mtime[f] < prev.t0

\* C1, as stated: for every initial cache state (absent, stale or fresh), of
\* two calls in succession with no source touched in between, the first
\* performs exactly one compilation pass and the second runs no compiler and
\* no archiver and reports the cache hit.
C1_Original ==
    \A p \in SeqProcs :
        SecondCall(p) =>
            /\ OnePass(prev.log, prev.source_files)
            /\ bld[p].log = <<>>
            /\ Cached(bld[p])

\* C1, amended: the first call performs exactly one compilation pass when the
\* artifact was absent or stale, and none when it was fresh; the second call
\* runs no compiler and no archiver, reports the cache hit and returns the
\* artifact.
C1_TwoCalls ==
    \A p \in SeqProcs :
        SecondCall(p) =>
            /\ IF prev.state0 = "fresh"
               THEN prev.log = <<>>
               ELSE OnePass(prev.log, prev.source_files)
            /\ bld[p].log = <<>>
            /\ Cached(bld[p])
            /\ bld[p].result = "lib"

C1_Witness ==
    \E p \in SeqProcs :
        /\ SecondCall(p)
        /\ prev.state0 = "stale"
        /\ Len(prev.source_files) >= 2
        /\ Cached(bld[p])

\* C2: a call that follows the touch of a tracked source file takes the
\* cache-miss path, never the cache-hit path, and its rebuild is a full one:
\* every tracked source file is listed for compilation, once, and a rebuild
\* that succeeds has compiled every one of them.
C2_TouchRebuilds ==
    \A p \in SeqProcs :
        LET b == bld[p]
        IN  (Decided(b) /\ \E f \in b.afterTouch : TrackedDoc(f)) =>
                /\ b.needs_rebuild
                /\ ~Cached(b)
                /\ Range(b.source_files) = TrackedFiles(mtime)
                /\ Len(b.source_files) = Cardinality(TrackedFiles(mtime))
                /\ (b.pc = "ret" /\ b.result = "lib") =>
                      {r.src : r \in {x \in Range(b.log) : x.tool = "emcc" /\ x.rc = 0}}
                          = TrackedFiles(mtime)

C2_Witness ==
    \E p \in SeqProcs :
        /\ bld[p].pc = "ret"
        /\ bld[p].result = "lib"
        /\ bld[p].afterTouch = {UiDeepCpp}
        /\ bld[p].state0 = "stale"
        /\ Len(bld[p].source_files) = 3

\* C3: each implementation of the staleness check answers stale exactly when
\* the artifact does not exist or some tracked source file that exists has a
\* modification time newer than the artifact's.
C3_StaleIff ==
    /\ NeedsRebuild(lib, mtime) <=> StaleDoc(lib, mtime)
    /\ PrepareNeedsRebuild(lib, mtime) <=> StaleDoc(lib, mtime)
    /\ lib.exists => (IsCacheOutdated(lib, mtime) <=> StaleDoc(lib, mtime))
    /\ \A p \in SeqProcs :
          Decided(bld[p]) => (bld[p].needs_rebuild <=> bld[p].state0 # "fresh")

C3_Witness ==
    \E p \in SeqProcs :
        /\ bld[p].pc = "ret"
        /\ bld[p].state0 = "fresh"
        /\ ~bld[p].needs_rebuild
        /\ mtime[CoreDeepCpp] > lib.mtime
        /\ mtime[CoreHdr] > lib.mtime
        /\ mtime[WebRendererCpp] = 0

\* C4: a compile that exits non-zero is the last external process of the
\* call: the builder reports that file's name with the compiler's stderr and
\* returns failure, with no further compile and no archiver run.
C4_FailFast ==
    \A p \in SeqProcs :
        LET b == bld[p]
        IN  \A j \in 1..Len(b.log) :
              (b.log[j].tool = "emcc" /\ b.log[j].rc # 0) =>
                  /\ j = Len(b.log)
                  /\ b.log[j].src = b.source_files[j]
                  /\ b.pc = "ret"
                  /\ b.result = "none"
                  /\ Msg("compile_failed", Name(b.log[j].src), b.log[j].stderr)
                        \in Range(b.msgs)

C4_Witness ==
    \E p \in SeqProcs :
        /\ bld[p].pc = "ret"
        /\ Len(bld[p].log) = 1
        /\ bld[p].log[1].rc # 0
        /\ Len(bld[p].source_files) = 3

ArchiverFailed(b) ==
    /\ b.log # <<>>
    /\ b.log[Len(b.log)].tool = "emar"
    /\ b.log[Len(b.log)].rc # 0

\* C5: after a failed archiver run the builder returns failure and the
\* artifact path holds no file or a complete artifact, so no call takes the
\* cache-hit path on a partially written library.
C5_NoHalfWritten ==
    \A p \in SeqProcs :
        LET b == bld[p]
        IN  /\ (b.pc = "ret" /\ ArchiverFailed(b)) =>
                  (b.result = "none" /\ (~lib.exists \/ lib.whole))
            /\ (b.pc = "ret" /\ Cached(b)) => lib.whole

\* C6: whenever the builder returns, no numbered object file is left in the
\* cache directory.
C6_NoObjectsLeft ==
    \A p \in SeqProcs :
        bld[p].pc = "ret" => \A k \in Slots : objs[k] = NoObj


(***************************************************************************)
(* Properties of the build commands (specification SpecBuild).             *)
(***************************************************************************)
\* The runs of a command that build something (the toolchain probe builds
\* nothing).
BuildRuns(log) == SelectSeq(log, LAMBDA x : x.mode = "build")

\* A web build has ended, and the command before it was a web build of the
\* same entry file that succeeded, with no file of the source tree written
\* since that build began.
SecondWebBuild ==
    /\ cmd.pc = "done"
    /\ cmd.platform = "web"
    /\ last.valid
    /\ last.built
    /\ last.platform = "web"
    /\ last.who = cmd.who
    /\ last.arg = cmd.arg
    /\ \A f \in Files : mtime[f] < last.t0

\* C7: a web build that directly follows a successful web build of the same
\* entry file, with no framework source changed in between, takes the
\* cache-hit path: the library builder compiles no object and runs no
\* archiver and reports the cached library, the compiler is run exactly once,
\* on the entry file with the cached library, and with the output path of the
\* first build (build/main.html for fire's project build).
C7_SecondWebBuildCached ==
    SecondWebBuild =>
        /\ cmd.lib_log = <<>>
        /\ \E k \in 1..Len(cmd.lib_msgs) : cmd.lib_msgs[k].kind = "cached"
        /\ Len(BuildRuns(cmd.log)) = 1
        /\ LET run == BuildRuns(cmd.log)[1]
           IN  /\ run.tool = "emcc"
               /\ run.src = EntryOf(cmd.who, cmd.arg)
               /\ run.libs = {"libfern_web.a"}
               /\ run.out = last.out
               /\ cmd.who = "fire_project" =>
                    run.out = [base |-> "project_root", dir |-> <<"build">>,
                               stem |-> "main", tail |-> "", ext |-> "html"]
               /\ cmd.built <=> run.rc = 0

C7_Witness ==
    /\ SecondWebBuild
    /\ cmd.who = "fire_project"
    /\ cmd.built
    /\ prev.valid
    /\ prev.log = <<>>

\* C8: a native build (fire's project build, fire's single-file build,
\* prepare linux) that finds include/fern or libfern.a of the installation
\* missing fails at once: it reports that the library is not installed, runs
\* no compiler, builds nothing and runs no executable.
C8_NotInstalledFailsFirst ==
    (cmd.platform = "linux" /\ cmd.entered /\ ~(env.inc /\ env.liba)) =>
        /\ cmd.pc = "done"
        /\ cmd.msgs[1].kind = "not_installed"
        /\ cmd.log = <<>>
        /\ ~cmd.built
        /\ ~cmd.ran

C8_Witness ==
    /\ cmd.platform = "linux"
    /\ cmd.who = "fire_file"
    /\ cmd.entered
    /\ env.inc
    /\ ~env.liba
    /\ cmd.pc = "done"
    /\ last.valid
    /\ last.who = "prepare"
    /\ last.platform = "linux"
    /\ ~last.built

(***************************************************************************)
(* Properties of the source locators (specification SpecLocate).           *)
(***************************************************************************)
\* The place of a directory in the documented order: the home-config
\* install location, the CLI's install location, the current and the parent
\* working directory, the hardcoded paths; 5 for a directory that is no
\* candidate.
Rank(d, e) ==
    IF d = "home_fern" THEN 1
    ELSE IF d = "cli_dir" THEN 2
    ELSE IF d = e.cwd \/ d = Parent(OriginalCwd(e)) THEN 3
    ELSE IF d \in {"dev_path", "usr_local_src", "home_fern_src"} THEN 4
    ELSE 5

\* The candidates of a locator that pass the shape test.
ValidCandidates(who, c, e) ==
    LET srcs == IF who = "fire" THEN FirePotentialSources(e)
                ELSE PreparePotentialSources(e)
    IN  {d \in Range(srcs) : LooksLikeFernSource(c, d)}

\* C9: the locator of a web build returns a candidate that passes the shape
\* test and that no passing candidate precedes in the order home-config
\* install, CLI install, current/parent working directory, hardcoded paths;
\* it returns none only when no candidate passes.
C9_DocumentedOrder ==
    loc.who \in {"fire", "prepare"} =>
        LET valid == ValidCandidates(loc.who, cand, env)
        IN  IF valid = {} THEN loc.result = "none"
            ELSE /\ loc.result \in valid
                 /\ \A d \in valid : Rank(loc.result, env) <= Rank(d, env)

\* C10: when the locator of a web build (fire's, prepare's) finds no valid
\* source tree, its error lists every candidate path it tried, each with the
\* mark telling whether it was found.
C10_NotFoundListsEveryPath ==
    (loc.who \in {"fire", "prepare"} /\ loc.result = "none") =>
        LET srcs == IF loc.who = "fire" THEN FirePotentialSources(env)
                    ELSE PreparePotentialSources(env)
        IN  loc.listed = [k \in 1..Len(srcs) |-> Listed(cand, srcs[k])]


(***************************************************************************)
(* Properties of the config resolver (specifications SpecWalk, SpecYaml).  *)
(***************************************************************************)
\* The levels from the start directory up to the filesystem root that hold
\* a marker file.
MarkedLevels(w) == {l \in 0..w.start : l \in w.yaml \/ l \in w.toml}

MaxOf(S) == CHOOSE x \in S : \A y \in S : y <= x

\* C16: find_project_root tests every level from the start directory up to
\* the filesystem root and returns the nearest level that holds the marker
\* file, and not-found when no level holds it.
C16_NearestMarkedLevel ==
    walk.who # "" =>
        IF MarkedLevels(walk) = {} THEN walk.result = NoLevel
        ELSE walk.result = MaxOf(MarkedLevels(walk))

\* A decimal integer literal, with or without a minus sign.
IsIntegerLiteral(v) ==
    /\ v # <<>>
    /\ \/ \A k \in 1..Len(v) : v[k] \in DecimalDigits
       \/ /\ Len(v) > 1
          /\ v[1] = "-"
          /\ \A k \in 2..Len(v) : v[k] \in DecimalDigits

IntegerValue(v) == IF v[1] = "-" THEN 0 - IntOf(Tail(v)) ELSE IntOf(v)

NestedExample ==
    << Line("pair", 0, "platforms", <<>>),
       Line("pair", 2, "web", <<>>),
       Line("pair", 4, "port", <<"4", "0", "0", "0">>) >>

\* C17: parse_simple_yaml turns platforms / web / port: 4000, each indented
\* under the one before, into a mapping whose ['platforms']['web']['port']
\* is the integer 4000; and whatever the key, when the last line of a text
\* gives it a scalar true or false the mapping holds a boolean for it, and
\* when it gives it an integer literal the mapping holds that integer.
C17_NestedAndTyped ==
    (cfg.done /\ ~cfg.parse.raised) =>
        /\ cfg.text = NestedExample =>
             GetAt(cfg.parse.result, <<"platforms", "web">>)["port"] = VInt(4000)
        /\ (cfg.text # <<>> /\ cfg.text[Len(cfg.text)].kind = "pair") =>
             LET line == cfg.text[Len(cfg.text)]
                 held == GetAt(cfg.parse.result,
                               cfg.parse.stack[Len(cfg.parse.stack)])
             IN  /\ Lower(line.value) = <<"t", "r", "u", "e">> =>
                      (line.key \in DOMAIN held /\ held[line.key] = VBool(TRUE))
                 /\ Lower(line.value) = <<"f", "a", "l", "s", "e">> =>
                      (line.key \in DOMAIN held /\ held[line.key] = VBool(FALSE))
                 /\ IsIntegerLiteral(line.value) =>
                      (line.key \in DOMAIN held
                       /\ held[line.key] = VInt(IntegerValue(line.value)))


(***************************************************************************)
(* Properties of the port finder (specification SpecPort).                 *)
(***************************************************************************)
\* The ports of the window start..start+9 that can be bound at probe time.
Bindable(start_port, listening) ==
    {q \in start_port..(start_port + MaxAttempts - 1) :
        q <= MaxPortNumber /\ q \notin listening}

MinOf(S) == CHOOSE x \in S : \A y \in S : x <= y

\* C11: _find_available_port(p) never raises; it returns the lowest port of
\* p..p+9 that can be bound at probe time, without a warning, and when no
\* port of the window can be bound it returns p and prints the warning.
C11_LowestBindable ==
    pf.done =>
        /\ pf.raised = ""
        /\ IF Bindable(pf.start, net) # {}
           THEN pf.port = MinOf(Bindable(pf.start, net)) /\ ~pf.warned
           ELSE pf.port = pf.start /\ pf.warned


(***************************************************************************)
(* Properties of the preview server (specification SpecServe).             *)
(***************************************************************************)
\* The server is shut down and serve has returned.
ShutDown(v) == v.main = "returned" /\ v.worker = "dead" /\ v.httpd # "open"

\* C12: once a signal has been delivered after the handlers were installed,
\* the server is eventually shut down: the listening socket is closed, the
\* worker has ended and serve has returned.
C12_SignalShutsDown == (srv.signals > 0) ~> ShutDown(srv)

\* C13: when the worker's bind fails because another process holds the
\* chosen port, the worker reports the port as in use and ends with no
\* unhandled exception and no listener open, and serve returns.
C13_BindRaceRecovered ==
    /\ [](srv.bind_failed =>
            /\ srv.worker = "dead"
            /\ srv.httpd = "none"
            /\ ~srv.unhandled
            /\ \E k \in 1..Len(srv.msgs) : srv.msgs[k] = "port_in_use"
            /\ (srv.main = "returned" /\ srv.browser # "raise") =>
                  \A k \in 1..Len(srv.msgs) : srv.msgs[k] # "error_running_web")
    /\ (srv.bind_failed ~> (srv.main = "returned"))

C13_Witness ==
    /\ srv.raced
    /\ srv.bind_failed
    /\ srv.browser = "ok"
    /\ srv.main = "returned"

\* C14: during one run the server's shutdown is invoked at most once.
C14_ShutdownAtMostOnce == srv.shutdown_calls <= 1

\* C15: when the browser launch has failed (it returned False or raised) and
\* no signal has come, the foreground keeps polling for as long as the
\* worker lives.
C15_BrowserFailureKeepsPolling ==
    (srv.opened /\ srv.browser \in {"false", "raise"} /\ srv.signals = 0
       /\ srv.worker # "dead") =>
        srv.main = "poll"

\* C18: whatever fern.yaml holds, the web run is not aborted by it: a file
\* that cannot be loaded gives the warning, the run goes on to choose a port
\* and start the server, and it chooses from the default port 8000 on when
\* the file configures no integer port.
C18_ConfigNeverAborts ==
    (srv.who # "" /\ srv.html /\ ~srv.opened) =>
        /\ srv.main # "returned"
        /\ (cfg.file = "unreadable" /\ ServeHasRoot(srv, env)) =>
              \E k \in 1..Len(srv.msgs) : srv.msgs[k] = "failed_to_load_fern_yaml"
        /\ srv.conf_port.type # "int" =>
              srv.port \in DefaultPort..(DefaultPort + MaxAttempts - 1)


(***************************************************************************)
(* Properties of the web builds (specifications SpecBuild, SpecShell).     *)
(***************************************************************************)
\* C19: a web build that finds no emcc executable, or whose emcc --version
\* exits non-zero, fails with the install-Emscripten instruction, and
\* locates no source tree, builds no cache and compiles nothing.
C19_NoToolchainFailsFirst ==
    (cmd.platform = "web" /\ cmd.entered /\ env.emcc # "ok" /\ cmd.pc # "probe") =>
        /\ cmd.pc = "done"
        /\ ~cmd.built
        /\ \E k \in 1..Len(cmd.msgs) : cmd.msgs[k].kind = "emscripten_not_found"
        /\ cmd.fern_source = "none"
        /\ cmd.listed = <<>>
        /\ cmd.lib_log = <<>>
        /\ bld[1].pc = "idle"
        /\ BuildRuns(cmd.log) = <<>>

\* The shell file the template rule gives a web build: the project-local
\* template (the project's for a project build, the working directory's for
\* a single file) if it exists, else the global one if it exists, else none.
ShellFileRule(who, e) ==
    LET local == IF who = "fire_file" THEN e.tpl_local ELSE e.tpl_project
    IN  IF local THEN (IF who = "fire_file" THEN "local_template" ELSE "project_template")
        ELSE IF e.tpl_global THEN "global_template"
        ELSE ""

\* C20: every web build passes as --shell-file the project-local template
\* if it exists, otherwise the global template if it exists, and passes no
\* --shell-file when neither exists.
C20_TemplatePrecedence ==
    \A k \in 1..Len(cmd.log) :
        cmd.log[k].mode = "build" => cmd.log[k].shell = ShellFileRule(cmd.who, env)

(***************************************************************************)
(* Failures of a build's external processes (specification SpecBuild).     *)
(***************************************************************************)
\* The exit code and stderr of every external process of the running
\* command's build, in the order they were run: the cache builder's compiles
\* and archiver run, then the final compile of the entry file.
BuildProcs ==
    LET lib_log == IF cmd.pc = "ensuring" THEN bld[1].log ELSE cmd.lib_log
        final == BuildRuns(cmd.log)
    IN  [k \in 1..Len(lib_log) |-> [rc |-> lib_log[k].rc, stderr |-> lib_log[k].stderr]]
        \o [k \in 1..Len(final) |-> [rc |-> final[k].rc, stderr |-> final[k].stderr]]

\* What the running command and its cache builder have printed.
Printed ==
    (IF cmd.pc = "ensuring" THEN bld[1].msgs ELSE cmd.lib_msgs) \o cmd.msgs

\* An external process of the running command's build has exited non-zero.
BuildProcFailed == \E k \in 1..Len(BuildProcs) : BuildProcs[k].rc # 0

\* C21: when an external process of a build (an object-file compile, the
\* archiver, the final compile of the entry file) exits non-zero, it is the
\* last external process of the command, the failure is printed with that
\* process's stderr (and fire prints "Build failed"), nothing counts as built
\* and neither the executable nor the preview server is started; the
\* executable or the server is started only after the build of the same
\* command reported success.
C21_FailedProcessEndsBuild ==
    /\ \A k \in 1..Len(BuildProcs) :
         BuildProcs[k].rc # 0 =>
            /\ k = Len(BuildProcs)
            /\ \E j \in 1..Len(Printed) :
                  /\ Printed[j].kind \in {"compile_failed", "archive_failed",
                                          "web_compile_failed"}
                  /\ Printed[j].text = BuildProcs[k].stderr
                  /\ Printed[j].text # ""
            /\ IF cmd.pc = "ensuring"
               THEN bld[1].pc = "ret" /\ bld[1].result = "none"
               ELSE /\ cmd.pc = "done"
                    /\ cmd.who # "prepare" =>
                          cmd.msgs[Len(cmd.msgs)].kind = "build_failed"
            /\ ~cmd.built /\ ~cmd.ran /\ ~cmd.served
            /\ \A j \in 1..Len(cmd.log) : cmd.log[j].mode # "run"
    /\ (cmd.ran \/ cmd.served \/ cmd.pc \in {"run", "serve"}) =>
         /\ cmd.built
         /\ ~BuildProcFailed
         /\ \E j \in 1..Len(cmd.msgs) : cmd.msgs[j].kind = "build_ok"
         /\ BuildRuns(cmd.log) # <<>>

\* The archiver of a fire web build has failed and the command has ended.
C21_Witness ==
    /\ cmd.who = "fire_project"
    /\ cmd.platform = "web"
    /\ cmd.pc = "done"
    /\ Len(cmd.lib_log) = Len(SourceFiles(mtime)) + 1
    /\ cmd.lib_log[Len(cmd.lib_log)].tool = "emar"
    /\ cmd.lib_log[Len(cmd.lib_log)].rc # 0

(***************************************************************************)
(* Precondition failures of fire (specification SpecBuild).                *)
(***************************************************************************)
\* A precondition of the running fire command fails: the platform is not
\* supported, the entry file is missing or is no C++ file, there is no
\* project root or no lib/main.cpp, or (web) no source tree is located.
FirePreconditionFails ==
    /\ cmd.who \in {"fire_project", "fire_file"}
    /\ \/ cmd.platform \notin {"linux", "web"}
       \/ cmd.who = "fire_file" /\ ~cmd.arg.exists
       \/ cmd.who = "fire_file" /\ cmd.arg.suffix \notin {"cpp", "cxx", "cc"}
       \/ cmd.who = "fire_project" /\ ~env.root
       \/ cmd.who = "fire_project" /\ ~env.main
       \/ cmd.platform = "web" /\ FireFind(cand, env).result = "none"

\* The kinds of message that report a failure.
FailureKinds ==
    {"unsupported_platform", "file_not_found", "unsupported_file_type",
     "not_in_project", "no_main_cpp", "source_not_found", "not_installed",
     "emscripten_not_found", "web_build_error"}

\* C22: a fire command one of whose preconditions fails runs no compile and
\* no archiver (the cache builder is never called, the entry file is never
\* compiled; the toolchain's version probe, which compiles nothing, may have
\* run), starts neither the executable nor the preview server, and ends
\* having reported a failure and built nothing.
C22_PreconditionFailureTerminal ==
    FirePreconditionFails =>
        /\ cmd.pc \in {"probe", "done"}
        /\ BuildRuns(cmd.log) = <<>>
        /\ cmd.lib_log = <<>>
        /\ bld[1].pc = "idle"
        /\ ~cmd.built /\ ~cmd.ran /\ ~cmd.served
        /\ \A j \in 1..Len(cmd.log) : cmd.log[j].mode = "version"
        /\ cmd.pc = "done" =>
              \E j \in 1..Len(cmd.msgs) : cmd.msgs[j].kind \in FailureKinds

\* fire -p web for a project has ended because no source tree was located.
C22_Witness ==
    /\ cmd.who = "fire_project"
    /\ cmd.platform = "web"
    /\ cmd.pc = "done"
    /\ env.root /\ env.main /\ env.emcc = "ok"
    /\ FireFind(cand, env).result = "none"
    /\ cmd.msgs[1].kind = "source_not_found"

(***************************************************************************)
(* Properties of sprout (specification SpecSprout).                        *)
(***************************************************************************)
\* C23: sprout <name>, for a name the validator accepts and with no entry of
\* that name in the original working directory, creates the directory with
\* the marker file fern.yaml in it, and find_project_root started in the new
\* directory or below it returns the new directory.
C23_SproutMakesProject ==
    (walk.sprouted /\ IsValidProjectName(walk.name) /\ walk.entry0 = "none") =>
        /\ walk.entry = "dir"
        /\ walk.project # NoLevel
        /\ walk.project \in walk.yaml
        /\ "created" \in Range(walk.msgs)
        /\ (walk.who # "" /\ walk.start >= walk.project) =>
              walk.result = walk.project

\* The walk was started in the new project's lib directory, below a
\* directory chain that holds another project.
C23_Witness ==
    /\ walk.sprouted
    /\ walk.entry0 = "none"
    /\ walk.project # NoLevel
    /\ walk.who = "detector"
    /\ walk.start = walk.project + 1
    /\ walk.yaml # {walk.project}
    /\ walk.result = walk.project

(***************************************************************************)
(* The cached artifact and the tree (specification SpecEdit).              *)
(***************************************************************************)
\* The artifact l is the outcome of a successful full build of the tracked
\* source files of fs as they are: its members are one object per source
\* file, compiled from the file's present content, and nothing else.
ArtifactCurrent(l, fs) ==
    /\ l.exists
    /\ l.whole
    /\ {l.members[k] : k \in Slots} \ {NoObj}
         = {[src |-> f, ver |-> fs[f]] : f \in Range(SourceFiles(fs))}

\* C24: whenever the cache builder takes the cache-hit path, the artifact it
\* returns was produced by a successful full build of the tree's tracked
\* source files as they are now.
C24_CacheHitIsCurrent ==
    \A p \in SeqProcs :
        (bld[p].pc = "ret" /\ ~bld[p].needs_rebuild /\ bld[p].result = "lib") =>
            ArtifactCurrent(lib, mtime)

(***************************************************************************)
(* The compilation pass of a cache miss (specification Spec).              *)
(***************************************************************************)
\* The compiler runs and the archiver runs of a builder's log.
CompileRuns(log) == SelectSeq(log, LAMBDA r : r.tool = "emcc")
ArchiveRuns(log) == SelectSeq(log, LAMBDA r : r.tool = "emar")

\* The invocation p missed the cache and every tool it ran has succeeded.
MissSucceeded(p) ==
    /\ bld[p].pc = "ret"
    /\ bld[p].needs_rebuild
    /\ bld[p].result = "lib"

\* C25: on a cache miss where every tool succeeds, with N tracked source
\* files, the compiler is run exactly N times, the k-th run writing obj_(k-1),
\* every tracked source file is compiled by exactly one run, and after the
\* compiles the archiver is run exactly once, over obj_0 .. obj_(N-1).
C25_OneCompilePerSource ==
    \A p \in SeqProcs :
        MissSucceeded(p) =>
            LET log == bld[p].log
                cs == CompileRuns(log)
                N == Cardinality(TrackedFiles(mtime))
            IN  /\ Len(cs) = N
                /\ \A k \in 1..N : cs[k].out = k - 1 /\ cs[k].rc = 0
                /\ \A f \in TrackedFiles(mtime) :
                      Cardinality({k \in 1..N : cs[k].src = f}) = 1
                /\ Len(ArchiveRuns(log)) = 1
                /\ Len(log) = N + 1
                /\ log[N + 1].tool = "emar"
                /\ log[N + 1].ins = [k \in 1..N |-> k - 1]

\* A miss on a tree with three tracked source files, one of them below
\* ui/ and one a platform file, has succeeded.
C25_Witness ==
    /\ MissSucceeded(1)
    /\ TrackedFiles(mtime) = {CoreCpp, UiDeepCpp, WebRendererCpp}
    /\ Len(bld[1].log) = 4

(***************************************************************************)
(* Nesting in parse_simple_yaml (specification SpecYaml).                  *)
(***************************************************************************)
\* The lines that carry text: they have an indentation that counts.
IsContent(line) == line.kind \in {"pair", "plain"}

\* The line that opened the mapping the n-th line of text belongs to, by the
\* nesting rule: the last line before it that is a key with an empty value,
\* is less indented than it, and is followed up to it by no line indented as
\* little as that key (0: the line belongs to the top level).
OpenerOf(text, n) ==
    LET openers == {m \in 1..(n - 1) :
                      /\ text[m].kind = "pair"
                      /\ text[m].value = <<>>
                      /\ text[m].indent < text[n].indent
                      /\ \A j \in (m + 1)..(n - 1) :
                            IsContent(text[j]) => text[j].indent > text[m].indent}
    IN  IF openers = {} THEN 0 ELSE MaxOf(openers)

\* The keys that lead from the top level to the mapping of the n-th line.
RECURSIVE RulePath(_, _)
RulePath(text, n) ==
    LET m == OpenerOf(text, n)
    IN  IF m = 0 THEN <<>> ELSE RulePath(text, m) \o <<text[m].key>>

\* The mapping the nesting rule gives the first n lines of text, a later
\* value of a key replacing an earlier one.
RECURSIVE RuleResult(_, _)
RuleResult(text, n) ==
    IF n = 0 THEN EmptyDict
    ELSE LET d == RuleResult(text, n - 1)
             line == text[n]
         IN  IF line.kind # "pair" THEN d
             ELSE SetAt(d, RulePath(text, n), line.key,
                        IF line.value = <<>> THEN VDict(EmptyDict)
                        ELSE Convert(line.value))

\* C26: in the mapping parse_simple_yaml returns, every key line is held by
\* the mapping of the innermost key with an empty value that precedes it, is
\* less indented than it and has not been closed by a line indented as
\* little as itself, or by the top level when there is none; a key repeated
\* in a mapping is held once, with its last value.
C26_NestingRule ==
    (cfg.done /\ ~cfg.parse.raised) =>
        cfg.parse.result = RuleResult(cfg.text, Len(cfg.text))

\* The same, for the texts whose first line is not indented.
C26_Unindented ==
    (cfg.done /\ ~cfg.parse.raised
       /\ cfg.text # <<>> /\ IsContent(cfg.text[1]) /\ cfg.text[1].indent = 0) =>
        cfg.parse.result = RuleResult(cfg.text, Len(cfg.text))

(***************************************************************************)
(* Web builds and the installed native library (specification SpecBuild).  *)
(***************************************************************************)
\* A web build of fire has ended (or is serving) with its entry file given,
\* the toolchain available, the source tree located and no compile or
\* archiver run failed.
WebBuildUnhindered ==
    /\ cmd.who \in {"fire_project", "fire_file"}
    /\ cmd.platform = "web"
    /\ cmd.pc \in {"serve", "done"}
    /\ cmd.entered
    /\ env.emcc = "ok"
    /\ FireFind(cand, env).result # "none"
    /\ ~BuildProcFailed

\* C27: the outcome of a web build does not depend on whether the native
\* library is installed: with the toolchain available, the source tree
\* located and every compile succeeding, the project web build and the
\* single-file web build succeed, whatever include/fern and libfern.a are.
C27_WebIgnoresNativeInstall ==
    WebBuildUnhindered => cmd.built

(***************************************************************************)
(* The three locators side by side (specification SpecLocate).             *)
(***************************************************************************)
\* C28: in every layout of the candidate roots, the source tree a locator
\* has returned is the tree each of the locators of fire, prepare and
\* web-cache returns there (not-found included).
C28_LocatorsAgree ==
    loc.who # "" =>
        /\ loc.result = FireFind(cand, env).result
        /\ loc.result = PrepareFind(cand, env).result
        /\ loc.result = WebCacheFind(cand, env).result

(***************************************************************************)
(* web-cache rebuild and the artifact (specification SpecRebuild).         *)
(***************************************************************************)
\* C29: when web-cache rebuild ends, whether it succeeded or failed, a
\* usable cached artifact is present if one was present when it began.
C29_RebuildKeepsArtifact ==
    (cmd.who = "web_cache" /\ cmd.pc = "done" /\ cmd.had_lib) =>
        lib.exists /\ lib.whole

(***************************************************************************)
(* Concurrent invocations (specification SpecRace).                        *)
(***************************************************************************)
\* The artifact l holds exactly one completed object per source file of
\* sfs, compiled from that file as it is in fs.
OneObjectPerSource(l, sfs, fs) ==
    /\ l.exists
    /\ l.whole
    /\ {l.members[k] : k \in Slots} \ {NoObj}
         = {[src |-> f, ver |-> fs[f]] : f \in Range(sfs)}

\* C30: with two invocations of the cache builder running at once on one
\* cache directory, every archiver run that succeeds leaves an artifact that
\* holds exactly one completed object per source file of the invocation that
\* ran it: none of its obj_<i>.o was overwritten by the other invocation with
\* another source's object, or deleted by it.
C30_ConcurrentArchiveSound ==
    [][\A p \in Procs :
          (bld[p].pc = "archive" /\ bld'[p].pc = "cleanup") =>
              OneObjectPerSource(lib', bld[p].source_files, mtime)]_vars

====
